---- MODULE Spec2Model ----
(***************************************************************************)
(* Resume version store: the Resume and ResumeVersion collections, the     *)
(* section diff of src/lib/diff.ts and the request handlers that write     *)
(* them (create, replace, partial update, upload, rollback, delete).       *)
(* Every handler is a sequence of awaited store operations; each awaited   *)
(* operation is one atomic step of the calling request, so requests of     *)
(* different callers interleave between their store operations.            *)
(***************************************************************************)
EXTENDS Integers, Sequences, FiniteSets, TLC

(***************************************************************************)
(* Bounds of the model.                                                    *)
(***************************************************************************)
MaxOps == 2
MaxDocs == 2
MaxSummary == 4
\* engine workers
MaxWorkers == 2

\* the request slots of the server: two requests can be in flight at once
Callers == {1, 2}

(***************************************************************************)
(* JSON values.  A value is a record [t, a, kv]: t is the kind, a the      *)
(* atom of a primitive, kv the entries of an object or array in key order  *)
(* (an array's keys are "0", "1", ... as Object.keys reports them).        *)
(***************************************************************************)
Undef == [t |-> "undef", a |-> "", kv |-> <<>>]
JNull == [t |-> "null", a |-> "", kv |-> <<>>]
JStr(s) == [t |-> "str", a |-> s, kv |-> <<>>]
JBool(b) == [t |-> "bool", a |-> b, kv |-> <<>>]
JNum(n) == [t |-> "num", a |-> n, kv |-> <<>>]
JArr(items) == [t |-> "arr", a |-> "", kv |-> [i \in 1..Len(items) |-> <<ToString(i - 1), items[i]>>]]
JObj(entries) == [t |-> "obj", a |-> "", kv |-> entries]

\* Object.keys(v), in insertion order
Keys(v) == [i \in 1..Len(v.kv) |-> v.kv[i][1]]

KeySet(v) == {v.kv[i][1] : i \in 1..Len(v.kv)}

\* v[k]; undefined when v has no such key
Get(v, k) ==
    IF k \in KeySet(v)
    THEN v.kv[CHOOSE i \in 1..Len(v.kv) : v.kv[i][1] = k][2]
    ELSE Undef

\* typeof v
TypeOf(v) ==
    CASE v.t = "undef" -> "undefined"
      [] v.t = "str" -> "string"
      [] v.t = "num" -> "number"
      [] v.t = "bool" -> "boolean"
      [] OTHER -> "object"

\* a === b: by value for primitives, null and undefined; two objects read
\* from the store or parsed from a request are never the same reference
StrictEq(a, b) == a.t \notin {"obj", "arr"} /\ a = b

\* a truthy value (!v is false)
Truthy(v) == v.t \notin {"undef", "null"} /\ ~(v.t = "str" /\ v.a = "")

RECURSIVE deepEqual(_, _)
deepEqual(a, b) ==
    IF StrictEq(a, b) THEN TRUE
    ELSE IF a.t = "null" \/ b.t = "null" THEN FALSE
    ELSE IF a.t = "undef" \/ b.t = "undef" THEN FALSE
    ELSE IF TypeOf(a) # TypeOf(b) THEN FALSE
    ELSE IF a.t = "arr"
         THEN IF b.t # "arr" THEN FALSE
              ELSE IF Len(a.kv) # Len(b.kv) THEN FALSE
              ELSE \A i \in 1..Len(a.kv) : deepEqual(a.kv[i][2], b.kv[i][2])
    ELSE IF TypeOf(a) = "object"
         THEN IF Len(a.kv) # Len(b.kv) THEN FALSE
              ELSE \A i \in 1..Len(a.kv) : deepEqual(a.kv[i][2], Get(b, a.kv[i][1]))
    ELSE FALSE

\* the keys of s whose values differ between oldData and newData, in the order of s
RECURSIVE SelectKeys(_, _, _, _)
SelectKeys(s, i, oldData, newData) ==
    IF i > Len(s) THEN <<>>
    ELSE (IF ~deepEqual(Get(oldData, s[i]), Get(newData, s[i])) THEN <<s[i]>> ELSE <<>>)
         \o SelectKeys(s, i + 1, oldData, newData)

\* the keys of both maps, those of the new map first
AllKeysNextFirst(oldData, newData) ==
    Keys(newData) \o SelectSeq(Keys(oldData), LAMBDA k : k \notin KeySet(newData))

\* new Set([...Object.keys(oldData), ...Object.keys(newData)]), in insertion order
AllKeys(oldData, newData) ==
    Keys(oldData) \o SelectSeq(Keys(newData), LAMBDA k : k \notin KeySet(oldData))

\* a diff that reports nothing when there is no previous map
diffSectionsNoPrev(oldData, newData) ==
    IF ~Truthy(oldData) THEN <<>>
    ELSE SelectKeys(AllKeys(oldData, newData), 1, oldData, newData)

\* a diff that reports every section of either map
diffSectionsAll(oldData, newData) ==
    IF ~Truthy(oldData) THEN Keys(newData) ELSE AllKeys(oldData, newData)

\* a diff that looks only at the keys of the new map
diffSectionsNew(oldData, newData) ==
    IF ~Truthy(oldData) THEN Keys(newData)
    ELSE SelectKeys(Keys(newData), 1, oldData, newData)

diffSections(oldData, newData) ==
    IF ~Truthy(oldData) THEN Keys(newData)
    ELSE SelectKeys(AllKeys(oldData, newData), 1, oldData, newData)

RECURSIVE Join(_, _)
Join(s, i) ==
    IF i > Len(s) THEN ""
    ELSE IF i = Len(s) THEN s[i]
    ELSE s[i] \o ", " \o Join(s, i + 1)

\* a summary that always lists the names
generateChangeSummaryNames(changedSections) ==
    IF Len(changedSections) = 0 THEN "No changes detected"
    ELSE "Updated " \o Join(changedSections, 1)

generateChangeSummary(changedSections) ==
    IF Len(changedSections) = 0 THEN "No changes detected"
    ELSE IF Len(changedSections) = 1 THEN "Updated " \o changedSections[1]
    ELSE IF Len(changedSections) <= 3 THEN "Updated " \o Join(changedSections, 1)
    ELSE "Updated " \o ToString(Len(changedSections)) \o " sections"

SeqToSet(s) == {s[i] : i \in 1..Len(s)}


\* { ...obj, [k]: v }: replaces the value in place, or appends a new key
Assign(obj, k, v) ==
    IF k \in KeySet(obj)
    THEN JObj([i \in 1..Len(obj.kv) |-> IF obj.kv[i][1] = k THEN <<k, v>> ELSE obj.kv[i]])
    ELSE JObj(Append(obj.kv, <<k, v>>))

\* { ...obj, ...patch }
RECURSIVE Spread(_, _, _)
Spread(obj, patch, i) ==
    IF i > Len(patch.kv) THEN obj
    ELSE Spread(Assign(obj, patch.kv[i][1], patch.kv[i][2]), patch, i + 1)

(***************************************************************************)
(* Request bodies the callers send.                                        *)
(***************************************************************************)
DA == JObj(<< <<"basics", JObj(<< <<"name", JStr("A")>> >>)>> >>)
DB == JObj(<< <<"basics", JObj(<< <<"name", JStr("B")>> >>)>>, <<"skills", JArr(<<JStr("x")>>)>> >>)
DM == JObj(<< <<"meta", JObj(<< <<"code", JStr("SWE")>> >>)>>, <<"basics", JObj(<< <<"name", JStr("A")>> >>)>> >>)
DN == JObj(<< <<"meta", JObj(<< <<"code", JStr("SWE")>> >>)>>, <<"basics", JObj(<< <<"name", JStr("B")>> >>)>> >>)

Body(data, title, meta_code) ==
    JObj((IF data = Undef THEN <<>> ELSE << <<"data", data>> >>)
         \o (IF title = "" THEN <<>> ELSE << <<"title", JStr(title)>> >>)
         \o (IF meta_code = "" THEN <<>> ELSE << <<"meta_code", JStr(meta_code)>> >>))

PutBodies == {Body(DA, "", ""), Body(DA, "T2", "PM"), Body(DB, "", ""), Body(DM, "T2", ""), Body(Undef, "T2", "")}

PostBodies == {Body(DA, "T1", "SWE"), Body(DA, "", ""), Body(Undef, "T1", "SWE")}

UploadBodies == {DM, JObj(<< <<"title", JStr("T2")>>, <<"data", DN>> >>), DA, JObj(<< <<"title", JStr("T2")>> >>)}

PatchBodies ==
    { JObj(<< <<"section", JStr("skills")>>, <<"value", JArr(<<JStr("y")>>)>> >>),
      JObj(<< <<"section", JStr("hobbies")>>, <<"value", JStr("z")>> >>),
      JObj(<< <<"sections", JObj(<< <<"basics", JObj(<< <<"label", JStr("C")>> >>)>>,
                                    <<"meta", JObj(<< <<"code", JStr("PM")>> >>)>> >>)>> >>),
      JObj(<< <<"sections", JObj(<< <<"skills", JArr(<<>>)>>, <<"hobbies", JStr("z")>> >>)>> >>),
      JObj(<< <<"title", JStr("T2")>> >>),
      JObj(<<>>) }

\* version_number of a rollback body; 0 stands for a body without the field
RollbackTargets == {0, 1, 2}

validSections == {"meta", "basics", "work", "education", "skills", "projects"}

(***************************************************************************)
(* State.                                                                  *)
(*   resumes      the Resume collection: _id -> document                   *)
(*   versions     the ResumeVersion collection                             *)
(*   generations  the Generation collection                                *)
(*   nextId       the next fresh _id                                       *)
(*   req          the request each caller has in flight: its body, the     *)
(*                position of its handler, the document it loaded and the  *)
(*                response it returned                                     *)
(*   ops          number of requests issued so far                         *)
(***************************************************************************)
VARIABLES resumes, versions, generations, nextId, req, ops

vars == <<resumes, versions, generations, nextId, req, ops>>

NoDoc == [meta_code |-> "", title |-> "", data |-> Undef, current_version |-> 0]

NoReq ==
    [op |-> "none", pc |-> "idle", id |-> 0, body |-> Undef, version_number |-> 0,
     doc |-> NoDoc, target |-> Undef, status |-> 0, error |-> "", no_change |-> FALSE,
     new_version |-> 0, changedSections |-> <<>>, changeSummary |-> "", listed |-> <<>>,
     seen |-> {}]

\* the resume and the snapshot that POST /api/resumes stores for the body
\* { data: DA, title: "T1", meta_code: "SWE" }
SeedResume == [meta_code |-> "SWE", title |-> "T1", data |-> DA, current_version |-> 1]

SeedVersion ==
    [resume_id |-> 1, version_number |-> 1, data |-> DA, changed_sections |-> <<>>,
     change_summary |-> "", change_type |-> "edit"]

\* the database is empty, or holds one resume as POST /api/resumes leaves it
Init ==
    /\ \/ /\ resumes = <<>>
          /\ versions = {}
          /\ nextId = 1
       \/ /\ resumes = (1 :> SeedResume)
          /\ versions = {SeedVersion}
          /\ nextId = 2
    /\ generations = {}
    /\ req = [c \in Callers |-> NoReq]
    /\ ops = 0

Ids == 1..MaxDocs

\* a new request takes the lowest free slot
CanStart(c) ==
    /\ req[c].pc \in {"idle", "done"}
    /\ ops < MaxOps
    /\ \A d \in Callers : d < c => req[d].pc \notin {"idle", "done"}

Request(op, id, body) == [NoReq EXCEPT !.op = op, !.id = id, !.body = body]

\* the handler returns a response; the request's own state is gone with it
Respond(r, status, error) == [NoReq EXCEPT !.pc = "done", !.status = status, !.error = error]

(***************************************************************************)
(* The stores.                                                             *)
(***************************************************************************)
\* a collection without the unique index
DuplicateKeyNever(vs, v) == FALSE

\* the unique index { resume_id: 1, version_number: 1 } rejects the insert
DuplicateKey(vs, v) ==
    \E w \in vs : w.resume_id = v.resume_id /\ w.version_number = v.version_number

\* an insert that keeps only the newest snapshot of the resume
InsertedLatestOnly(vs, v) == {w \in vs : w.resume_id # v.resume_id} \cup {v}

\* the collection after a successful ResumeVersion.create
Inserted(vs, v) == vs \cup {v}

Version(id, n, data, changed, summary, type) ==
    [resume_id |-> id, version_number |-> n, data |-> data, changed_sections |-> changed,
     change_summary |-> summary, change_type |-> type]

\* document.save() writes a path only when it was modified after loading
Written(stored, loaded, assigned) == IF assigned # loaded THEN assigned ELSE stored


\* document.save() of a document that is no longer stored throws
SaveFails(id) == id \notin DOMAIN resumes

(***************************************************************************)
(* POST /api/resumes: create a resume from a full payload.                 *)
(***************************************************************************)
\* data?.basics?.name?.full || fallback
FullName(data, fallback) ==
    LET full == Get(Get(Get(data, "basics"), "name"), "full")
    IN IF Truthy(full) THEN full.a ELSE fallback

\* meta_code taken from the body, else from data.meta.code
PostMetaCode(body) ==
    IF Truthy(Get(body, "meta_code")) THEN Get(body, "meta_code")
    ELSE Get(Get(Get(body, "data"), "meta"), "code")

PostTitle(body) ==
    IF Truthy(Get(body, "title")) THEN Get(body, "title").a
    ELSE IF Truthy(PostMetaCode(body))
         THEN FullName(Get(body, "data"), "Untitled") \o " - " \o PostMetaCode(body).a
         ELSE FullName(Get(body, "data"), "Untitled")

\* validation, then Resume.create
PostCreate(c) ==
    /\ CanStart(c)
    /\ \E body \in PostBodies :
        LET r == Request("POST", 0, body)
            data == Get(body, "data")
        IN IF ~Truthy(data)
           THEN /\ req' = [req EXCEPT ![c] = Respond(r, 400, "ValidationError")]
                /\ UNCHANGED <<resumes, nextId>>
           ELSE IF ~Truthy(PostMetaCode(body))
           THEN /\ req' = [req EXCEPT ![c] = Respond(r, 400, "ValidationError")]
                /\ UNCHANGED <<resumes, nextId>>
           ELSE /\ nextId <= MaxDocs
                /\ LET doc == [meta_code |-> PostMetaCode(body).a, title |-> PostTitle(body),
                               data |-> data, current_version |-> 1]
                   IN /\ resumes' = (nextId :> doc) @@ resumes
                      /\ req' = [req EXCEPT ![c] = [r EXCEPT !.pc = "post_version", !.id = nextId, !.doc = doc]]
                /\ nextId' = nextId + 1
    /\ ops' = ops + 1
    /\ UNCHANGED <<versions, generations>>

\* ResumeVersion.create of the first snapshot; changed_sections, change_summary
\* and change_type take the schema defaults
PostVersion(c) ==
    /\ req[c].pc = "post_version"
    /\ LET r == req[c]
           v == Version(r.id, 1, Get(r.body, "data"), <<>>, "", "edit")
       IN IF DuplicateKey(versions, v)
          THEN /\ req' = [req EXCEPT ![c] = Respond(r, 500, "E11000")]
               /\ UNCHANGED versions
          ELSE /\ versions' = Inserted(versions, v)
               /\ req' = [req EXCEPT ![c] = [Respond(r, 201, "") EXCEPT !.new_version = 1]]
    /\ UNCHANGED <<resumes, generations, nextId, ops>>

(***************************************************************************)
(* PUT /api/resumes/[id]: full update.                                     *)
(***************************************************************************)
\* the title and meta_code assignments, made only for a truthy body field
PutCosmetic(doc, body) ==
    [doc EXCEPT !.title = IF Truthy(Get(body, "title")) THEN Get(body, "title").a ELSE @,
                !.meta_code = IF Truthy(Get(body, "meta_code")) THEN Get(body, "meta_code").a ELSE @]

\* the handler after Resume.findById returned doc: the diff decides between
\* the no-change answer and the append of a version
PutLoaded(r, doc) ==
    LET changedSections == diffSections(doc.data, Get(r.body, "data"))
    IN IF Len(changedSections) = 0
       THEN IF Truthy(Get(r.body, "title")) \/ Truthy(Get(r.body, "meta_code"))
            THEN [r EXCEPT !.pc = "put_cosmetic", !.doc = doc]
            ELSE [Respond(r, 200, "") EXCEPT !.no_change = TRUE]
       ELSE [r EXCEPT !.pc = "put_version", !.doc = doc]

\* a full update that creates the resume it does not find
PutOnUpsert(c, id, body) ==
    /\ CanStart(c)
    /\ LET r == Request("PUT", id, body)
       IN IF ~Truthy(Get(body, "data"))
          THEN /\ req' = [req EXCEPT ![c] = Respond(r, 400, "ValidationError")]
               /\ UNCHANGED resumes
          ELSE IF id \notin DOMAIN resumes
          THEN /\ resumes' = (id :> [meta_code |-> "", title |-> "", data |-> Get(body, "data"),
                                     current_version |-> 1]) @@ resumes
               /\ req' = [req EXCEPT ![c] = Respond(r, 201, "")]
          ELSE /\ req' = [req EXCEPT ![c] = PutLoaded(r, resumes[id])]
               /\ UNCHANGED resumes
    /\ ops' = ops + 1
    /\ UNCHANGED <<versions, generations, nextId>>

\* validation, Resume.findById, and the diff against the loaded document
PutOn(c, id, body) ==
    /\ CanStart(c)
    /\ LET r == Request("PUT", id, body)
       IN req' = [req EXCEPT ![c] =
            IF ~Truthy(Get(body, "data")) THEN Respond(r, 400, "ValidationError")
            ELSE IF id \notin DOMAIN resumes THEN Respond(r, 404, "NotFound")
            ELSE PutLoaded(r, resumes[id])]
    /\ ops' = ops + 1
    /\ UNCHANGED <<resumes, versions, generations, nextId>>

PutFind(c) == \E id \in Ids, body \in PutBodies : PutOn(c, id, body)

\* nothing changed: currentResume.save() of the title and meta_code only
PutCosmeticSave(c) ==
    /\ req[c].pc = "put_cosmetic"
    /\ LET r == req[c]
           doc == PutCosmetic(r.doc, r.body)
       IN IF SaveFails(r.id)
          THEN /\ req' = [req EXCEPT ![c] = Respond(r, 500, "DocumentNotFound")]
               /\ UNCHANGED resumes
          ELSE /\ resumes' = [resumes EXCEPT ![r.id] =
                     [@ EXCEPT !.title = Written(@, r.doc.title, doc.title),
                               !.meta_code = Written(@, r.doc.meta_code, doc.meta_code)]]
               /\ req' = [req EXCEPT ![c] = [Respond(r, 200, "") EXCEPT !.no_change = TRUE]]
    /\ UNCHANGED <<versions, generations, nextId, ops>>

\* an append that, finding the version number taken, moves the pointer onto it
PutVersionAdopt(c) ==
    /\ req[c].pc = "put_version"
    /\ LET r == req[c]
           data == Get(r.body, "data")
           changedSections == diffSections(r.doc.data, data)
           nextVersion == r.doc.current_version + 1
           v == Version(r.id, nextVersion, data, changedSections,
                        generateChangeSummary(changedSections), "edit")
       IN IF DuplicateKey(versions, v)
          THEN /\ req' = [req EXCEPT ![c] = Respond(r, 500, "E11000")]
               /\ resumes' = IF r.id \in DOMAIN resumes
                             THEN [resumes EXCEPT ![r.id].current_version = nextVersion]
                             ELSE resumes
               /\ UNCHANGED versions
          ELSE /\ versions' = Inserted(versions, v)
               /\ req' = [req EXCEPT ![c] = [r EXCEPT !.pc = "put_save"]]
               /\ UNCHANGED resumes
    /\ UNCHANGED <<generations, nextId, ops>>

\* an append that tries again for as long as the version number is taken
PutVersionRetry(c) ==
    /\ req[c].pc = "put_version"
    /\ LET r == req[c]
           data == Get(r.body, "data")
           changedSections == diffSections(r.doc.data, data)
           nextVersion == r.doc.current_version + 1
           v == Version(r.id, nextVersion, data, changedSections,
                        generateChangeSummary(changedSections), "edit")
       IN IF DuplicateKey(versions, v)
          THEN UNCHANGED <<req, versions>>
          ELSE /\ versions' = Inserted(versions, v)
               /\ req' = [req EXCEPT ![c] = [r EXCEPT !.pc = "put_save"]]
    /\ UNCHANGED <<resumes, generations, nextId, ops>>

\* ResumeVersion.create of the snapshot numbered current_version + 1
PutVersion(c) ==
    /\ req[c].pc = "put_version"
    /\ \E changedSections \in {diffSections(req[c].doc.data, Get(req[c].body, "data"))} :
        LET r == req[c]
            data == Get(r.body, "data")
            nextVersion == r.doc.current_version + 1
            v == Version(r.id, nextVersion, data, changedSections,
                         generateChangeSummary(changedSections), "edit")
        IN IF DuplicateKey(versions, v)
           THEN /\ req' = [req EXCEPT ![c] = Respond(r, 500, "E11000")]
                /\ UNCHANGED versions
           ELSE /\ versions' = Inserted(versions, v)
                /\ req' = [req EXCEPT ![c] = [r EXCEPT !.pc = "put_save"]]
    /\ UNCHANGED <<resumes, generations, nextId, ops>>

\* a save addressed by meta_code instead of _id
PutSaveByCode(c) ==
    /\ req[c].pc = "put_save"
    /\ LET r == req[c]
           data == Get(r.body, "data")
           nextVersion == r.doc.current_version + 1
       IN IF SaveFails(r.id)
          THEN /\ req' = [req EXCEPT ![c] = Respond(r, 500, "DocumentNotFound")]
               /\ UNCHANGED resumes
          ELSE /\ resumes' = [id \in DOMAIN resumes |->
                     IF resumes[id].meta_code = resumes[r.id].meta_code
                     THEN [resumes[id] EXCEPT !.data = data, !.current_version = nextVersion]
                     ELSE resumes[id]]
               /\ req' = [req EXCEPT ![c] = [Respond(r, 200, "") EXCEPT !.new_version = nextVersion]]
    /\ UNCHANGED <<versions, generations, nextId, ops>>

\* a save that also brings the pending jobs of the resume up to the new data
PutSaveSyncJobs(c) ==
    /\ req[c].pc = "put_save"
    /\ LET r == req[c]
           data == Get(r.body, "data")
           nextVersion == r.doc.current_version + 1
           doc == PutCosmetic(r.doc, r.body)
       IN IF SaveFails(r.id)
          THEN /\ req' = [req EXCEPT ![c] = Respond(r, 500, "DocumentNotFound")]
               /\ UNCHANGED <<resumes, generations>>
          ELSE /\ resumes' = [resumes EXCEPT ![r.id] =
                     [@ EXCEPT !.data = data,
                               !.current_version = nextVersion,
                               !.title = Written(@, r.doc.title, doc.title),
                               !.meta_code = Written(@, r.doc.meta_code, doc.meta_code)]]
               /\ generations' = {IF g.resume_id = r.id /\ g.status = "PENDING"
                                  THEN [g EXCEPT !.resume_data = data, !.version_number = nextVersion]
                                  ELSE g : g \in generations}
               /\ req' = [req EXCEPT ![c] = [Respond(r, 200, "") EXCEPT !.new_version = nextVersion]]
    /\ UNCHANGED <<versions, nextId, ops>>

\* currentResume.save() of data, current_version, title and meta_code
PutSave(c) ==
    /\ req[c].pc = "put_save"
    /\ LET r == req[c]
           data == Get(r.body, "data")
           nextVersion == r.doc.current_version + 1
           doc == PutCosmetic(r.doc, r.body)
       IN IF SaveFails(r.id)
          THEN /\ req' = [req EXCEPT ![c] = Respond(r, 500, "DocumentNotFound")]
               /\ UNCHANGED resumes
          ELSE /\ resumes' = [resumes EXCEPT ![r.id] =
                     [@ EXCEPT !.data = data,
                               !.current_version = nextVersion,
                               !.title = Written(@, r.doc.title, doc.title),
                               !.meta_code = Written(@, r.doc.meta_code, doc.meta_code)]]
               /\ req' = [req EXCEPT ![c] = [Respond(r, 200, "") EXCEPT !.new_version = nextVersion]]
    /\ UNCHANGED <<versions, generations, nextId, ops>>

(***************************************************************************)
(* PATCH /api/resumes/[id]: section-level update.                          *)
(***************************************************************************)
PatchSingle(body) == Truthy(Get(body, "section")) /\ Get(body, "value") # Undef

PatchMulti(body) == ~PatchSingle(body) /\ Truthy(Get(body, "sections")) /\ TypeOf(Get(body, "sections")) = "object"

PatchTitle(body) == ~PatchSingle(body) /\ ~PatchMulti(body) /\ Truthy(Get(body, "title"))

\* a validation that tests the section name of a single-section body only
PatchInvalidLax(body) ==
    \/ PatchSingle(body) /\ Get(body, "section").a \notin validSections
    \/ ~PatchSingle(body) /\ ~PatchMulti(body) /\ ~PatchTitle(body)

\* the 400 answers of the handler
PatchInvalid(body) ==
    \/ PatchSingle(body) /\ Get(body, "section").a \notin validSections
    \/ PatchMulti(body) /\ \E k \in KeySet(Get(body, "sections")) : k \notin validSections
    \/ ~PatchSingle(body) /\ ~PatchMulti(body) /\ ~PatchTitle(body)

\* a merge that keeps the keys of the old section the new value does not name
DeepMerge(old, new) == IF old.t = "obj" /\ new.t = "obj" THEN Spread(old, new, 1) ELSE new

RECURSIVE SpreadDeep(_, _, _)
SpreadDeep(obj, patch, i) ==
    IF i > Len(patch.kv) THEN obj
    ELSE SpreadDeep(Assign(obj, patch.kv[i][1], DeepMerge(Get(obj, patch.kv[i][1]), patch.kv[i][2])),
                    patch, i + 1)

\* a partial update that deep-merges each supplied section into the old one
PatchApplyDeep(doc, body) ==
    IF PatchSingle(body)
    THEN LET section == Get(body, "section").a
             value == Get(body, "value")
         IN [doc EXCEPT !.data = Assign(doc.data, section, DeepMerge(Get(doc.data, section), value)),
                        !.meta_code = IF section = "meta" /\ Truthy(Get(value, "code"))
                                      THEN Get(value, "code").a ELSE @]
    ELSE IF PatchMulti(body)
    THEN LET sections == Get(body, "sections")
         IN [doc EXCEPT !.data = SpreadDeep(doc.data, sections, 1),
                        !.meta_code = IF Truthy(Get(Get(sections, "meta"), "code"))
                                      THEN Get(Get(sections, "meta"), "code").a ELSE @]
    ELSE [doc EXCEPT !.title = Get(body, "title").a]

\* the assignments the handler makes to the loaded document
PatchApply(doc, body) ==
    IF PatchSingle(body)
    THEN LET section == Get(body, "section").a
             value == Get(body, "value")
         IN [doc EXCEPT !.data = Assign(doc.data, section, value),
                        !.meta_code = IF section = "meta" /\ Truthy(Get(value, "code"))
                                      THEN Get(value, "code").a ELSE @]
    ELSE IF PatchMulti(body)
    THEN LET sections == Get(body, "sections")
         IN [doc EXCEPT !.data = Spread(doc.data, sections, 1),
                        !.meta_code = IF Truthy(Get(Get(sections, "meta"), "code"))
                                      THEN Get(Get(sections, "meta"), "code").a ELSE @]
    ELSE [doc EXCEPT !.title = Get(body, "title").a]

\* Resume.findById, then the validation of the body
PatchOn(c, id, body) ==
    /\ CanStart(c)
    /\ LET r == Request("PATCH", id, body)
       IN req' = [req EXCEPT ![c] =
            IF id \notin DOMAIN resumes THEN Respond(r, 404, "NotFound")
            ELSE IF PatchInvalid(body) THEN Respond(r, 400, "ValidationError")
            ELSE [r EXCEPT !.pc = "patch_save", !.doc = resumes[id]]]
    /\ ops' = ops + 1
    /\ UNCHANGED <<resumes, versions, generations, nextId>>

PatchFind(c) == \E id \in Ids, body \in PatchBodies : PatchOn(c, id, body)

\* a partial update that snapshots its result as the full update does
PatchSaveSnapshot(c) ==
    /\ req[c].pc = "patch_save"
    /\ LET r == req[c]
           doc == PatchApply(r.doc, r.body)
           nextVersion == r.doc.current_version + 1
           changedSections == diffSections(r.doc.data, doc.data)
           v == Version(r.id, nextVersion, doc.data, changedSections,
                        generateChangeSummary(changedSections), "edit")
       IN IF SaveFails(r.id) \/ DuplicateKey(versions, v)
          THEN /\ req' = [req EXCEPT ![c] = Respond(r, 500, "E11000")]
               /\ UNCHANGED <<resumes, versions>>
          ELSE /\ versions' = Inserted(versions, v)
               /\ resumes' = [resumes EXCEPT ![r.id] =
                     [@ EXCEPT !.data = doc.data, !.current_version = nextVersion]]
               /\ req' = [req EXCEPT ![c] = Respond(r, 200, "")]
    /\ UNCHANGED <<generations, nextId, ops>>

\* markModified('data') and currentResume.save(): data is written back as the
\* handler holds it, title and meta_code when they were changed
PatchSave(c) ==
    /\ req[c].pc = "patch_save"
    /\ LET r == req[c]
           doc == PatchApply(r.doc, r.body)
       IN IF SaveFails(r.id)
          THEN /\ req' = [req EXCEPT ![c] = Respond(r, 500, "DocumentNotFound")]
               /\ UNCHANGED resumes
          ELSE /\ resumes' = [resumes EXCEPT ![r.id] =
                     [@ EXCEPT !.data = doc.data,
                               !.title = Written(@, r.doc.title, doc.title),
                               !.meta_code = Written(@, r.doc.meta_code, doc.meta_code)]]
               /\ req' = [req EXCEPT ![c] = Respond(r, 200, "")]
    /\ UNCHANGED <<versions, generations, nextId, ops>>

(***************************************************************************)
(* POST /api/resumes/upload: ingest a payload by its meta.code.            *)
(***************************************************************************)
UploadWrapped(body) ==
    Truthy(Get(body, "data")) /\ (Truthy(Get(Get(body, "data"), "meta")) \/ Truthy(Get(Get(body, "data"), "basics")))

UploadRaw(body) == ~UploadWrapped(body) /\ (Truthy(Get(body, "meta")) \/ Truthy(Get(body, "basics")))

UploadData(body) == IF UploadWrapped(body) THEN Get(body, "data") ELSE body

UploadMetaCode(body) == Get(Get(UploadData(body), "meta"), "code")

UploadTitle(body) ==
    IF UploadWrapped(body) /\ Truthy(Get(body, "title")) THEN Get(body, "title").a
    ELSE FullName(UploadData(body), "Untitled Resume") \o " - " \o UploadMetaCode(body).a

\* validation, then Resume.findOne({ meta_code })
UploadOn(c, body) ==
    /\ CanStart(c)
    /\ LET r == Request("UPLOAD", 0, body)
       IN IF ~UploadWrapped(body) /\ ~UploadRaw(body)
          THEN req' = [req EXCEPT ![c] = Respond(r, 400, "ValidationError")]
          ELSE IF ~Truthy(UploadMetaCode(body))
          THEN req' = [req EXCEPT ![c] = Respond(r, 400, "ValidationError")]
          ELSE LET found == {id \in DOMAIN resumes : resumes[id].meta_code = UploadMetaCode(body).a}
               IN IF found = {}
                  THEN req' = [req EXCEPT ![c] = [r EXCEPT !.pc = "upload_insert"]]
                  ELSE \E id \in found :
                         req' = [req EXCEPT ![c] = [r EXCEPT !.pc = "upload_version", !.id = id, !.doc = resumes[id]]]
    /\ ops' = ops + 1
    /\ UNCHANGED <<resumes, versions, generations, nextId>>

UploadFind(c) == \E body \in UploadBodies : UploadOn(c, body)

\* a resume with this meta_code exists: ResumeVersion.create of the next snapshot
UploadVersion(c) ==
    /\ req[c].pc = "upload_version"
    /\ \E changedSections \in {diffSections(req[c].doc.data, UploadData(req[c].body))} :
       LET r == req[c]
           data == UploadData(r.body)
           nextVersion == r.doc.current_version + 1
           v == Version(r.id, nextVersion, data, changedSections,
                        generateChangeSummary(changedSections), "upload")
       IN IF DuplicateKey(versions, v)
          THEN /\ req' = [req EXCEPT ![c] = Respond(r, 500, "E11000")]
               /\ UNCHANGED versions
          ELSE /\ versions' = Inserted(versions, v)
               /\ req' = [req EXCEPT ![c] = [r EXCEPT !.pc = "upload_save"]]
    /\ UNCHANGED <<resumes, generations, nextId, ops>>

\* existingResume.save() of data, current_version and title
UploadSave(c) ==
    /\ req[c].pc = "upload_save"
    /\ LET r == req[c]
           nextVersion == r.doc.current_version + 1
       IN IF SaveFails(r.id)
          THEN /\ req' = [req EXCEPT ![c] = Respond(r, 500, "DocumentNotFound")]
               /\ UNCHANGED resumes
          ELSE /\ resumes' = [resumes EXCEPT ![r.id] =
                     [@ EXCEPT !.data = UploadData(r.body),
                               !.current_version = nextVersion,
                               !.title = Written(@, r.doc.title, UploadTitle(r.body))]]
               /\ req' = [req EXCEPT ![c] = [Respond(r, 200, "") EXCEPT !.new_version = nextVersion]]
    /\ UNCHANGED <<versions, generations, nextId, ops>>

\* no resume with this meta_code: Resume.create
UploadInsert(c) ==
    /\ req[c].pc = "upload_insert"
    /\ nextId <= MaxDocs
    /\ LET r == req[c]
           doc == [meta_code |-> UploadMetaCode(r.body).a, title |-> UploadTitle(r.body),
                   data |-> UploadData(r.body), current_version |-> 1]
       IN /\ resumes' = (nextId :> doc) @@ resumes
          /\ req' = [req EXCEPT ![c] = [r EXCEPT !.pc = "upload_first", !.id = nextId, !.doc = doc]]
    /\ nextId' = nextId + 1
    /\ UNCHANGED <<versions, generations, ops>>

\* a first snapshot stored with the defaults of the version schema
UploadFirstDefaults(c) ==
    /\ req[c].pc = "upload_first"
    /\ LET r == req[c]
           v == Version(r.id, 1, UploadData(r.body), <<>>, "", "edit")
       IN /\ versions' = Inserted(versions, v)
          /\ req' = [req EXCEPT ![c] = [Respond(r, 201, "") EXCEPT !.new_version = 1]]
    /\ UNCHANGED <<resumes, generations, nextId, ops>>

\* ResumeVersion.create of the first snapshot of the new resume
UploadFirst(c) ==
    /\ req[c].pc = "upload_first"
    /\ LET r == req[c]
           data == UploadData(r.body)
           v == Version(r.id, 1, data, Keys(data), "Initial upload", "upload")
       IN IF DuplicateKey(versions, v)
          THEN /\ req' = [req EXCEPT ![c] = Respond(r, 500, "E11000")]
               /\ UNCHANGED versions
          ELSE /\ versions' = Inserted(versions, v)
               /\ req' = [req EXCEPT ![c] = [Respond(r, 201, "") EXCEPT !.new_version = 1]]
    /\ UNCHANGED <<resumes, generations, nextId, ops>>

(***************************************************************************)
(* POST /api/resumes/[id]/versions: rollback.                              *)
(***************************************************************************)
\* validation, then ResumeVersion.findOne of the target version
RollbackOn(c, id, version_number) ==
    /\ CanStart(c)
    /\ LET r == [Request("ROLLBACK", id, Undef) EXCEPT !.version_number = version_number]
           found == {v \in versions : v.resume_id = id /\ v.version_number = version_number}
       IN IF version_number = 0
          THEN req' = [req EXCEPT ![c] = Respond(r, 400, "ValidationError")]
          ELSE IF found = {}
          THEN req' = [req EXCEPT ![c] = Respond(r, 404, "NotFound")]
          ELSE \E targetVersion \in found :
                 req' = [req EXCEPT ![c] = [r EXCEPT !.pc = "rollback_find", !.target = targetVersion.data]]
    /\ ops' = ops + 1
    /\ UNCHANGED <<resumes, versions, generations, nextId>>

RollbackFindVersion(c) ==
    \E id \in Ids, version_number \in RollbackTargets : RollbackOn(c, id, version_number)

\* Resume.findById
RollbackFindResume(c) ==
    /\ req[c].pc = "rollback_find"
    /\ LET r == req[c]
       IN req' = [req EXCEPT ![c] =
            IF r.id \notin DOMAIN resumes THEN Respond(r, 404, "NotFound")
            ELSE [r EXCEPT !.pc = "rollback_version", !.doc = resumes[r.id]]]
    /\ UNCHANGED <<resumes, versions, generations, nextId, ops>>

\* ResumeVersion.create of a new snapshot holding the target's data
RollbackVersion(c) ==
    /\ req[c].pc = "rollback_version"
    /\ LET r == req[c]
           changedSections == diffSections(r.doc.data, r.target)
           nextVersion == r.doc.current_version + 1
           v == Version(r.id, nextVersion, r.target, changedSections,
                        "Rolled back to v" \o ToString(r.version_number), "rollback")
       IN IF DuplicateKey(versions, v)
          THEN /\ req' = [req EXCEPT ![c] = Respond(r, 500, "E11000")]
               /\ UNCHANGED versions
          ELSE /\ versions' = Inserted(versions, v)
               /\ req' = [req EXCEPT ![c] = [r EXCEPT !.pc = "rollback_save"]]
    /\ UNCHANGED <<resumes, generations, nextId, ops>>

\* a rollback that restores the data and leaves the pointer where it was
RollbackSaveInPlace(c) ==
    /\ req[c].pc = "rollback_save"
    /\ LET r == req[c]
       IN IF SaveFails(r.id)
          THEN /\ req' = [req EXCEPT ![c] = Respond(r, 500, "DocumentNotFound")]
               /\ UNCHANGED resumes
          ELSE /\ resumes' = [resumes EXCEPT ![r.id] = [@ EXCEPT !.data = r.target]]
               /\ req' = [req EXCEPT ![c] =
                     [Respond(r, 200, "") EXCEPT !.new_version = r.doc.current_version + 1]]
    /\ UNCHANGED <<versions, generations, nextId, ops>>

\* resume.save() of data and current_version
RollbackSave(c) ==
    /\ req[c].pc = "rollback_save"
    /\ LET r == req[c]
           nextVersion == r.doc.current_version + 1
       IN IF SaveFails(r.id)
          THEN /\ req' = [req EXCEPT ![c] = Respond(r, 500, "DocumentNotFound")]
               /\ UNCHANGED resumes
          ELSE /\ resumes' = [resumes EXCEPT ![r.id] =
                     [@ EXCEPT !.data = r.target, !.current_version = nextVersion]]
               /\ req' = [req EXCEPT ![c] = [Respond(r, 200, "") EXCEPT !.new_version = nextVersion]]
    /\ UNCHANGED <<versions, generations, nextId, ops>>

(***************************************************************************)
(* DELETE /api/resumes/[id]: the resume, its versions and its jobs.        *)
(***************************************************************************)
\* Resume.findById
DeleteFind(c) ==
    /\ CanStart(c)
    /\ \E id \in Ids :
        LET r == Request("DELETE", id, Undef)
        IN req' = [req EXCEPT ![c] =
             IF id \notin DOMAIN resumes THEN Respond(r, 404, "NotFound")
             ELSE [r EXCEPT !.pc = "delete_versions"]]
    /\ ops' = ops + 1
    /\ UNCHANGED <<resumes, versions, generations, nextId>>

\* ResumeVersion.deleteMany({ resume_id: id })
DeleteVersions(c) ==
    /\ req[c].pc = "delete_versions"
    /\ versions' = {v \in versions : v.resume_id # req[c].id}
    /\ req' = [req EXCEPT ![c].pc = "delete_generations"]
    /\ UNCHANGED <<resumes, generations, nextId, ops>>

\* Generation.deleteMany({ resume_id: id })
DeleteGenerations(c) ==
    /\ req[c].pc = "delete_generations"
    /\ generations' = {g \in generations : g.resume_id # req[c].id}
    /\ req' = [req EXCEPT ![c].pc = "delete_resume"]
    /\ UNCHANGED <<resumes, versions, nextId, ops>>

\* Resume.findByIdAndDelete(id)
DeleteResume(c) ==
    /\ req[c].pc = "delete_resume"
    /\ resumes' = [id \in DOMAIN resumes \ {req[c].id} |-> resumes[id]]
    /\ req' = [req EXCEPT ![c] = Respond(@, 200, "")]
    /\ UNCHANGED <<versions, generations, nextId, ops>>

\* the store fails under an awaited operation: the handler's catch block
\* answers 500 and the rest of the handler does not run
StoreFailure(c) ==
    /\ req[c].pc \notin {"idle", "done"}
    /\ req' = [req EXCEPT ![c] = Respond(@, 500, "StoreUnavailable")]
    /\ UNCHANGED <<resumes, versions, generations, nextId, ops>>

Next ==
    \E c \in Callers :
        \/ PostCreate(c)
        \/ PostVersion(c)
        \/ PutFind(c)
        \/ PutCosmeticSave(c)
        \/ PutVersion(c)
        \/ PutSave(c)
        \/ PatchFind(c)
        \/ PatchSave(c)
        \/ UploadFind(c)
        \/ UploadVersion(c)
        \/ UploadSave(c)
        \/ UploadInsert(c)
        \/ UploadFirst(c)
        \/ RollbackFindVersion(c)
        \/ RollbackFindResume(c)
        \/ RollbackVersion(c)
        \/ RollbackSave(c)
        \/ DeleteFind(c)
        \/ DeleteVersions(c)
        \/ DeleteGenerations(c)
        \/ DeleteResume(c)
        \/ StoreFailure(c)

Spec == Init /\ [][Next]_vars

\* the step a handler takes when the store answers the operation it awaits
Continue(c) ==
    \/ PostVersion(c)
    \/ PutCosmeticSave(c)
    \/ PutVersion(c)
    \/ PutSave(c)
    \/ PatchSave(c)
    \/ UploadVersion(c)
    \/ UploadSave(c)
    \/ UploadInsert(c)
    \/ UploadFirst(c)
    \/ RollbackFindResume(c)
    \/ RollbackVersion(c)
    \/ RollbackSave(c)
    \/ DeleteVersions(c)
    \/ DeleteGenerations(c)
    \/ DeleteResume(c)

\* the store answers every operation and the runtime resumes the handler that
\* awaits it; clients need not send requests and the store need not fail
Fairness == \A c \in Callers : WF_vars(Continue(c))

\* the uploads that have looked for their meta_code in an empty database
LiveUploads ==
    { [Request("UPLOAD", 0, body) EXCEPT !.pc = "upload_insert"] :
        body \in {b \in UploadBodies : (UploadWrapped(b) \/ UploadRaw(b)) /\ Truthy(UploadMetaCode(b))} }

\* the writing requests that have just read the resume the database holds
LiveRequests ==
    { PutLoaded(Request("PUT", 1, body), SeedResume) : body \in {b \in PutBodies : Truthy(Get(b, "data"))} }
    \cup { [Request("PATCH", 1, body) EXCEPT !.pc = "patch_save", !.doc = SeedResume] :
             body \in {b \in PatchBodies : ~PatchInvalid(b)} }
    \cup { IF UploadMetaCode(body).a = SeedResume.meta_code
           THEN [Request("UPLOAD", 0, body) EXCEPT !.pc = "upload_version", !.id = 1, !.doc = SeedResume]
           ELSE [Request("UPLOAD", 0, body) EXCEPT !.pc = "upload_insert"] :
             body \in {b \in UploadBodies : (UploadWrapped(b) \/ UploadRaw(b)) /\ Truthy(UploadMetaCode(b))} }
    \cup { [Request("ROLLBACK", 1, Undef) EXCEPT !.version_number = 1, !.pc = "rollback_find",
                                                 !.target = SeedVersion.data] }

\* two writers under way at once: on the one resume of the database, or
\* uploading into the empty database
LiveInit ==
    /\ \/ /\ resumes = (1 :> SeedResume)
          /\ versions = {SeedVersion}
          /\ nextId = 2
          /\ req \in [Callers -> {r \in LiveRequests : r.pc # "done"}]
       \/ /\ resumes = <<>>
          /\ versions = {}
          /\ nextId = 1
          /\ req \in [Callers -> LiveUploads]
    /\ generations = {}
    /\ ops = 2

LiveNext ==
    \E c \in Callers :
        \/ PutCosmeticSave(c)
        \/ PutVersion(c)
        \/ PutSave(c)
        \/ PatchSave(c)
        \/ UploadVersion(c)
        \/ UploadSave(c)
        \/ UploadInsert(c)
        \/ UploadFirst(c)
        \/ RollbackFindResume(c)
        \/ RollbackVersion(c)
        \/ RollbackSave(c)
        \/ StoreFailure(c)

SpecLive == LiveInit /\ [][LiveNext]_vars /\ Fairness


(***************************************************************************)
(* The readers of the version history and POST /api/generate, which puts a *)
(* job with a snapshot of the resume into the Generation collection.  They *)
(* run among the requests above.  A job is the record the handler creates,  *)
(* without its output_filename and timestamps.                             *)
(***************************************************************************)
\* the versions of a set, the highest version_number first
RECURSIVE SortDesc(_)
SortDesc(vs) ==
    IF vs = {} THEN <<>>
    ELSE LET newest == CHOOSE v \in vs : \A w \in vs : w.version_number <= v.version_number
         IN <<newest>> \o SortDesc(vs \ {newest})

\* the versions of a set, the lowest version_number first
RECURSIVE SortAsc(_)
SortAsc(vs) ==
    IF vs = {} THEN <<>>
    ELSE LET oldest == CHOOSE v \in vs : \A w \in vs : v.version_number <= w.version_number
         IN <<oldest>> \o SortAsc(vs \ {oldest})

\* .select('version_number createdAt changed_sections change_summary change_type')
SelectSummary(v) ==
    [version_number |-> v.version_number, changed_sections |-> v.changed_sections,
     change_summary |-> v.change_summary, change_type |-> v.change_type]

\* .select('version_number createdAt')
SelectNumber(v) == [version_number |-> v.version_number]

\* a listing in the order of creation
listVersionsOldestFirst(id) ==
    LET sorted == SortAsc({v \in versions : v.resume_id = id})
    IN [i \in 1..Len(sorted) |-> SelectSummary(sorted[i])]

\* ResumeVersion.find({ resume_id }).select(...).sort({ version_number: -1 })
listVersions(id) ==
    LET sorted == SortDesc({v \in versions : v.resume_id = id})
    IN [i \in 1..Len(sorted) |-> SelectSummary(sorted[i])]

\* GET /api/resumes/[id]/versions without ?version
ListVersionsOn(c, id) ==
    /\ CanStart(c)
    /\ req' = [req EXCEPT ![c] =
         [Respond(Request("LIST", id, Undef), 200, "") EXCEPT !.listed = listVersions(id)]]
    /\ ops' = ops + 1
    /\ UNCHANGED <<resumes, versions, generations, nextId>>

ListVersions(c) == \E id \in Ids : ListVersionsOn(c, id)

\* GET /api/resumes/[id]?versions=true: Resume.findById
GetFind(c) ==
    /\ CanStart(c)
    /\ \E id \in Ids :
        LET r == Request("GET", id, Undef)
        IN req' = [req EXCEPT ![c] =
             IF id \notin DOMAIN resumes THEN Respond(r, 404, "NotFound")
             ELSE [r EXCEPT !.pc = "get_versions", !.doc = resumes[id]]]
    /\ ops' = ops + 1
    /\ UNCHANGED <<resumes, versions, generations, nextId>>

\* ResumeVersion.find({ resume_id }).sort({ version_number: -1 }).select('version_number createdAt')
GetVersions(c) ==
    /\ req[c].pc = "get_versions"
    /\ LET sorted == SortDesc({v \in versions : v.resume_id = req[c].id})
       IN req' = [req EXCEPT ![c] =
            [Respond(req[c], 200, "") EXCEPT !.listed = [i \in 1..Len(sorted) |-> SelectNumber(sorted[i])]]]
    /\ UNCHANGED <<resumes, versions, generations, nextId, ops>>

\* JSON.parse(JSON.stringify(v)): a key with an undefined value is dropped,
\* an undefined array item becomes null
RECURSIVE JsonClone(_)
JsonClone(v) ==
    IF v.t = "obj"
    THEN LET kept == SelectSeq(v.kv, LAMBDA e : e[2].t # "undef")
         IN JObj([i \in 1..Len(kept) |-> <<kept[i][1], JsonClone(kept[i][2])>>])
    ELSE IF v.t = "arr"
    THEN [v EXCEPT !.kv = [i \in 1..Len(v.kv) |->
                            <<v.kv[i][1], IF v.kv[i][2].t = "undef" THEN JNull ELSE JsonClone(v.kv[i][2])>>]]
    ELSE v

\* the _id of a new job
NewJobId == CHOOSE n \in 1..(Cardinality(generations) + 1) : \A g \in generations : g.job_id # n

\* resume_ids of POST /api/generate bodies; 0 stands for a body without the field
GenerateTargets == {0} \cup Ids

\* validation, then Resume.findById(resume_id).lean()
GenerateOn(c, id) ==
    /\ CanStart(c)
    /\ LET r == Request("GENERATE", id, Undef)
       IN req' = [req EXCEPT ![c] =
            IF id = 0 THEN Respond(r, 400, "ValidationError")
            ELSE IF id \notin DOMAIN resumes THEN Respond(r, 404, "NotFound")
            ELSE [r EXCEPT !.pc = "generate_version", !.doc = resumes[id]]]
    /\ ops' = ops + 1
    /\ UNCHANGED <<resumes, versions, generations, nextId>>

GenerateFind(c) == \E id \in GenerateTargets : GenerateOn(c, id)

\* ResumeVersion.findOne({ resume_id, version_number: resume.current_version }).lean()
GenerateVersion(c) ==
    /\ req[c].pc = "generate_version"
    /\ LET r == req[c]
           found == {v \in versions : v.resume_id = r.id /\ v.version_number = r.doc.current_version}
       IN IF found = {}
          THEN req' = [req EXCEPT ![c] = [r EXCEPT !.pc = "generate_create", !.target = Undef]]
          ELSE \E latestVersion \in found :
                 req' = [req EXCEPT ![c] = [r EXCEPT !.pc = "generate_create", !.target = latestVersion.data]]
    /\ UNCHANGED <<resumes, versions, generations, nextId, ops>>

\* the snapshot taken from the resume as loaded, whatever the version row holds
GenerateDataLive(r) == JsonClone(r.doc.data)

\* latestVersion?.data || resume.data, cloned
GenerateData(r) == JsonClone(IF Truthy(r.target) THEN r.target ELSE r.doc.data)

\* resume.meta_code, else resumeData.meta.code, else 'RESUME'
GenerateMetaCode(r) ==
    IF r.doc.meta_code # "" THEN r.doc.meta_code
    ELSE IF Truthy(Get(Get(GenerateData(r), "meta"), "code")) THEN Get(Get(GenerateData(r), "meta"), "code").a
    ELSE "RESUME"

\* Generation.create of the job in state PENDING
GenerateCreate(c) ==
    /\ req[c].pc = "generate_create"
    /\ LET r == req[c]
           job == [job_id |-> NewJobId, resume_id |-> r.id, version_number |-> r.doc.current_version,
                   status |-> "PENDING", resume_data |-> GenerateData(r), meta_code |-> GenerateMetaCode(r)]
       IN /\ generations' = generations \cup {job}
          /\ req' = [req EXCEPT ![c] = Respond(r, 201, "")]
    /\ UNCHANGED <<resumes, versions, nextId, ops>>

JobsNext ==
    \/ Next
    \/ \E c \in Callers :
        \/ ListVersions(c)
        \/ GetFind(c)
        \/ GetVersions(c)
        \/ GenerateFind(c)
        \/ GenerateVersion(c)
        \/ GenerateCreate(c)

SpecJobs == Init /\ [][JobsNext]_vars

(***************************************************************************)
(* The engine of LLM_CONTEXT_FOR_ENGINE.md: workers that take the jobs of   *)
(* the Generation collection, each either from a change stream of the       *)
(* inserts or by polling with find_one_and_update, and run process_job.     *)
(* A worker is a record of req beside the request slots: op is its way of   *)
(* taking jobs, id the _id of the job it holds, seen the jobs it has taken. *)
(***************************************************************************)
Workers == (2 + 1)..(2 + MaxWorkers)

Worker(mode) == [NoReq EXCEPT !.op = mode, !.pc = "wait"]

\* update_one({"_id": job_id}, {"$set": {"status": status}})
SetStatus(job_id, status) ==
    {IF g.job_id = job_id THEN [g EXCEPT !.status = status] ELSE g : g \in generations}

\* one resume is stored, no job yet; every worker watches or polls
EngineInit ==
    /\ resumes = (1 :> SeedResume)
    /\ versions = {SeedVersion}
    /\ generations = {}
    /\ nextId = 2
    /\ \E mode \in [Workers -> {"WATCH", "POLL"}] :
         req = [i \in Callers \cup Workers |-> IF i \in Callers THEN NoReq ELSE Worker(mode[i])]
    /\ ops = 0

\* for change in stream: the next insert the worker has not had yet
Watch(w) ==
    /\ req[w].op = "WATCH" /\ req[w].pc = "wait"
    /\ \E job \in generations :
         /\ job.job_id \notin req[w].seen
         /\ \A g \in generations : g.job_id \notin req[w].seen => job.job_id <= g.job_id
         /\ req' = [req EXCEPT ![w] = [req[w] EXCEPT !.pc = "mark", !.id = job.job_id,
                                                     !.seen = req[w].seen \cup {job.job_id}]]
    /\ UNCHANGED <<resumes, versions, generations, nextId, ops>>

\* a pickup that takes the oldest job not yet finished
PollUnfinished(w) ==
    /\ req[w].op = "POLL" /\ req[w].pc = "wait"
    /\ \E job \in generations :
         /\ job.status \in {"PENDING", "PROCESSING"}
         /\ \A g \in generations : g.status \in {"PENDING", "PROCESSING"} => job.job_id <= g.job_id
         /\ generations' = SetStatus(job.job_id, "PROCESSING")
         /\ req' = [req EXCEPT ![w] = [req[w] EXCEPT !.pc = "mark", !.id = job.job_id,
                                                     !.seen = req[w].seen \cup {job.job_id}]]
    /\ UNCHANGED <<resumes, versions, nextId, ops>>

\* find_one_and_update({"status": "PENDING"}, {"$set": {"status": "PROCESSING"}}, sort createdAt)
Poll(w) ==
    /\ req[w].op = "POLL" /\ req[w].pc = "wait"
    /\ \E job \in generations :
         /\ job.status = "PENDING"
         /\ \A g \in generations : g.status = "PENDING" => job.job_id <= g.job_id
         /\ generations' = SetStatus(job.job_id, "PROCESSING")
         /\ req' = [req EXCEPT ![w] = [req[w] EXCEPT !.pc = "mark", !.id = job.job_id,
                                                     !.seen = req[w].seen \cup {job.job_id}]]
    /\ UNCHANGED <<resumes, versions, nextId, ops>>

\* process_job: mark as PROCESSING
Mark(w) ==
    /\ req[w].pc = "mark"
    /\ generations' = SetStatus(req[w].id, "PROCESSING")
    /\ req' = [req EXCEPT ![w] = [req[w] EXCEPT !.pc = "render"]]
    /\ UNCHANGED <<resumes, versions, nextId, ops>>

\* process_job: template, LaTeX and upload done, mark as COMPLETED
Complete(w) ==
    /\ req[w].pc = "render"
    /\ generations' = SetStatus(req[w].id, "COMPLETED")
    /\ req' = [req EXCEPT ![w] = [req[w] EXCEPT !.pc = "wait", !.id = 0]]
    /\ UNCHANGED <<resumes, versions, nextId, ops>>

\* process_job: an exception in the try block, mark as FAILED
Fail(w) ==
    /\ req[w].pc \in {"mark", "render"}
    /\ generations' = SetStatus(req[w].id, "FAILED")
    /\ req' = [req EXCEPT ![w] = [req[w] EXCEPT !.pc = "wait", !.id = 0]]
    /\ UNCHANGED <<resumes, versions, nextId, ops>>

EngineNext ==
    \/ \E c \in Callers :
        \/ GenerateFind(c)
        \/ GenerateVersion(c)
        \/ GenerateCreate(c)
    \/ \E w \in Workers :
        \/ Watch(w)
        \/ Poll(w)
        \/ Mark(w)
        \/ Complete(w)
        \/ Fail(w)

SpecEngine == EngineInit /\ [][EngineNext]_vars

(***************************************************************************)
(* Two concurrent full updates of one resume.  The resume is at its first  *)
(* version (created by POST /api/resumes or by an upload); both callers    *)
(* have loaded it and hold payloads that differ from each other.  No       *)
(* other request runs.                                                     *)
(***************************************************************************)
RaceDocs ==
    { [doc |-> SeedResume, first |-> SeedVersion],
      [doc |-> [meta_code |-> "SWE", title |-> "Untitled Resume - SWE", data |-> DM, current_version |-> 1],
       first |-> Version(1, 1, DM, Keys(DM), "Initial upload", "upload")] }

RaceInit ==
    \E d \in RaceDocs, b1 \in PutBodies, b2 \in PutBodies :
        /\ Truthy(Get(b1, "data"))
        /\ Truthy(Get(b2, "data"))
        /\ Get(b1, "data") # Get(b2, "data")
        /\ resumes = (1 :> d.doc)
        /\ versions = {d.first}
        /\ generations = {}
        /\ nextId = 2
        /\ req = (1 :> PutLoaded(Request("PUT", 1, b1), d.doc)) @@ (2 :> PutLoaded(Request("PUT", 1, b2), d.doc))
        /\ ops = 2

RaceNext == \E c \in Callers : PutCosmeticSave(c) \/ PutVersion(c) \/ PutSave(c)

SpecRace == RaceInit /\ [][RaceNext]_vars

(***************************************************************************)
(* A full update overtaken by a failed delete.  Caller 1 loaded the resume *)
(* at its first version and appended version 2; before its save, a DELETE  *)
(* of the resume ran ResumeVersion.deleteMany and then failed on the store, *)
(* so the resume is still there and its versions are gone.  From here any   *)
(* requests run.                                                            *)
(***************************************************************************)
StaleInit ==
    \E body \in PutBodies :
        /\ PutLoaded(Request("PUT", 1, body), SeedResume).pc = "put_version"
        /\ resumes = (1 :> SeedResume)
        /\ versions = {}
        /\ generations = {}
        /\ nextId = 2
        /\ req = (1 :> [PutLoaded(Request("PUT", 1, body), SeedResume) EXCEPT !.pc = "put_save"])
                 @@ (2 :> Respond(NoReq, 500, "StoreUnavailable"))
        /\ ops = 0

SpecStale == StaleInit /\ [][Next]_vars

(***************************************************************************)
(* Two resumes, each as POST /api/resumes leaves it, under full updates,    *)
(* section updates and rollbacks of either, two at a time.                  *)
(***************************************************************************)
PairInit ==
    /\ resumes = (1 :> SeedResume) @@ (2 :> [SeedResume EXCEPT !.data = DB])
    /\ versions = {SeedVersion, [SeedVersion EXCEPT !.resume_id = 2, !.data = DB]}
    /\ generations = {}
    /\ nextId = 3
    /\ req = [c \in Callers |-> NoReq]
    /\ ops = 0

PairNext ==
    \E c \in Callers :
        \/ PutFind(c)
        \/ PutCosmeticSave(c)
        \/ PutVersion(c)
        \/ PutSave(c)
        \/ PatchFind(c)
        \/ PatchSave(c)
        \/ RollbackFindVersion(c)
        \/ RollbackFindResume(c)
        \/ RollbackVersion(c)
        \/ RollbackSave(c)
        \/ StoreFailure(c)

SpecPair == PairInit /\ [][PairNext]_vars

(***************************************************************************)
(* diffSections on its own: one call with a previous and a next section    *)
(* map.  The maps have the sections skills and work, each absent or one of *)
(* the JSON values below; the previous map may also be undefined or null.  *)
(***************************************************************************)
DiffValues ==
    { JNull, JBool("true"), JNum("1"), JStr("1"), JStr("x"),
      JArr(<<>>), JObj(<<>>), JArr(<<JStr("x")>>), JObj(<< <<"0", JStr("x")>> >>),
      JObj(<< <<"a", JNum("1")>>, <<"b", JNum("2")>> >>),
      JObj(<< <<"b", JNum("2")>>, <<"a", JNum("1")>> >>) }

DiffMap(skills, work) ==
    JObj((IF skills = Undef THEN <<>> ELSE << <<"skills", skills>> >>)
         \o (IF work = Undef THEN <<>> ELSE << <<"work", work>> >>))

DiffMaps == {DiffMap(x, y) : x \in DiffValues \cup {Undef}, y \in DiffValues \cup {Undef}}

\* a call of diffSections(previous, next) that has not returned yet
DiffCall(previous, next) ==
    [NoReq EXCEPT !.op = "diffSections", !.pc = "diff", !.doc = [NoDoc EXCEPT !.data = previous],
                  !.body = next]

DiffInit ==
    \E previous \in DiffMaps \cup {Undef, JNull}, next \in DiffMaps :
        /\ resumes = <<>>
        /\ versions = {}
        /\ generations = {}
        /\ nextId = 1
        /\ req = (1 :> DiffCall(previous, next)) @@ (2 :> NoReq)
        /\ ops = 0

\* the call returns the list of changed sections
DiffReturn(c) ==
    /\ req[c].pc = "diff"
    /\ req' = [req EXCEPT ![c] =
         [req[c] EXCEPT !.pc = "done", !.changedSections = diffSections(req[c].doc.data, req[c].body)]]
    /\ UNCHANGED <<resumes, versions, generations, nextId, ops>>

DiffNext == \E c \in Callers : DiffReturn(c)

SpecDiff == DiffInit /\ [][DiffNext]_vars

(***************************************************************************)
(* diffSections called both ways round: caller 1 with the maps (A, B),      *)
(* caller 2 with (B, A).                                                    *)
(***************************************************************************)
SwapMaps == {DiffMap(x, y) : x \in DiffValues \cup {Undef}, y \in {Undef, JStr("x")}}

SwapInit ==
    \E A \in SwapMaps, B \in SwapMaps :
        /\ resumes = <<>>
        /\ versions = {}
        /\ generations = {}
        /\ nextId = 1
        /\ req = (1 :> DiffCall(A, B)) @@ (2 :> DiffCall(B, A))
        /\ ops = 0

SpecSwap == SwapInit /\ [][DiffNext]_vars

(***************************************************************************)
(* diffSections on section maps whose keys come in every order: two calls   *)
(* with the same previous and next map, over three sections and two values. *)
(***************************************************************************)
OrderSections == {"basics", "skills", "work"}

OrderValues == {JStr("x"), JArr(<<JStr("x")>>)}

\* the lists of distinct sections
OrderKeys ==
    {l \in UNION {[1..n -> OrderSections] : n \in 0..Cardinality(OrderSections)} :
        \A i \in DOMAIN l, j \in DOMAIN l : l[i] = l[j] => i = j}

OrderMaps ==
    UNION { {JObj([i \in 1..Len(l) |-> <<l[i], value[i]>>]) : value \in [1..Len(l) -> OrderValues]} :
            l \in OrderKeys }

OrderInit ==
    \E previous \in OrderMaps \cup {Undef}, next \in OrderMaps :
        /\ resumes = <<>>
        /\ versions = {}
        /\ generations = {}
        /\ nextId = 1
        /\ req = [c \in Callers |-> DiffCall(previous, next)]
        /\ ops = 0

SpecOrder == OrderInit /\ [][DiffNext]_vars

(***************************************************************************)
(* generateChangeSummary on its own: one call with a list of distinct      *)
(* section names of length 0 to MaxSummary.                                *)
(***************************************************************************)
SummaryInputs ==
    {l \in UNION {[1..n -> validSections] : n \in 0..MaxSummary} :
        \A i \in DOMAIN l, j \in DOMAIN l : l[i] = l[j] => i = j}

SummaryInit ==
    \E l \in SummaryInputs :
        /\ resumes = <<>>
        /\ versions = {}
        /\ generations = {}
        /\ nextId = 1
        /\ req = (1 :> [NoReq EXCEPT !.op = "generateChangeSummary", !.pc = "summary",
                                    !.changedSections = l]) @@ (2 :> NoReq)
        /\ ops = 0

\* the call returns the summary of its list
SummaryReturn(c) ==
    /\ req[c].pc = "summary"
    /\ req' = [req EXCEPT ![c] =
         [req[c] EXCEPT !.pc = "done", !.changeSummary = generateChangeSummary(req[c].changedSections)]]
    /\ UNCHANGED <<resumes, versions, generations, nextId, ops>>

SummaryNext == \E c \in Callers : SummaryReturn(c)

SpecSummary == SummaryInit /\ [][SummaryNext]_vars

\* both calls have returned
RaceDone == \A c \in Callers : req[c].pc = "done"

\* the call of c advanced the pointer to version n
Advanced(c, n) == req[c].status = 200 /\ req[c].new_version = n

\* the call of c failed on the duplicate (resume_id, version_number) key
Conflict(c) == req[c].status = 500 /\ req[c].error = "E11000"

(***************************************************************************)
(* Properties.                                                             *)
(***************************************************************************)
SameKey(v, w) == v.resume_id = w.resume_id /\ v.version_number = w.version_number

VersionsOf(id) == {v \in versions : v.resume_id = id}

\* C1: no two stored versions of a resume carry the same version_number, and
\* a step never replaces a stored version by another one with the same
\* (resume_id, version_number): an append on a used pair is rejected.
UniqueVersionNumbers ==
    [][/\ \A v \in versions', w \in versions' : SameKey(v, w) => v = w
       /\ \A v \in versions, w \in versions' : SameKey(v, w) => v = w]_vars

\* C1 witness: an append was rejected on the duplicate key while the stored
\* version with that number is still there
AppendRejected ==
    \E c \in Callers : Conflict(c) /\ \E v \in versions : v.version_number = 2

\* C2: the data of every resume equals the data of the stored version whose
\* version_number is the resume's current_version.
DataIsCurrentVersionData ==
    \A id \in DOMAIN resumes : \A v \in VersionsOf(id) :
        v.version_number = resumes[id].current_version => resumes[id].data = v.data

\* C3: no resume has a stored version numbered above its current_version
\* (append and pointer advance are one atomic step).
NoVersionAheadOfPointer ==
    \A id \in DOMAIN resumes : \A v \in VersionsOf(id) :
        v.version_number <= resumes[id].current_version

\* C4: whenever a resume exists, the version numbered current_version is stored.
CurrentVersionStored ==
    \A id \in DOMAIN resumes : \E v \in VersionsOf(id) :
        v.version_number = resumes[id].current_version

\* no request is in flight
Quiescent == \A c \in Callers : req[c].pc \in {"idle", "done"}

\* C5: once every operation has completed, the version numbers listed for a
\* resume are exactly 1..current_version.
ContiguousWhenQuiescent ==
    Quiescent =>
        \A id \in DOMAIN resumes :
            {v.version_number : v \in VersionsOf(id)} = 1..resumes[id].current_version

RaceLoserRetries ==
    RaceDone => \A c \in Callers : ~Conflict(c)

\* some request is in its ResumeVersion.deleteMany step on resume id
DeletingVersions(id) ==
    \E c \in Callers :
        /\ req[c].pc = "delete_versions"
        /\ req[c].id = id
        /\ req'[c].pc = "delete_generations"

\* C8: a stored version is never changed and never removed, except by the
\* deletion of its whole resume.
VersionsImmutable ==
    [][\A v \in versions : v \in versions' \/ DeletingVersions(v.resume_id)]_vars

\* C8 witness: a rollback was appended as version 3 and made current while
\* versions 1 and 2 of the resume are still stored
RolledBackWithHistory ==
    \E v \in versions :
        /\ v.change_type = "rollback"
        /\ v.version_number = 3
        /\ v.resume_id \in DOMAIN resumes
        /\ resumes[v.resume_id].current_version = 3
        /\ {w.version_number : w \in VersionsOf(v.resume_id)} = 1..3

\* a step that leaves data and current_version of every resume alone and
\* sets title and meta_code of resume id to nothing but the supplied values
OnlyCosmetic(id, body) ==
    /\ DOMAIN resumes' = DOMAIN resumes
    /\ \A i \in DOMAIN resumes :
        /\ resumes'[i].data = resumes[i].data
        /\ resumes'[i].current_version = resumes[i].current_version
        /\ i # id => resumes'[i] = resumes[i]
    /\ id \in DOMAIN resumes =>
        /\ resumes'[id].title # resumes[id].title =>
             Truthy(Get(body, "title")) /\ resumes'[id].title = Get(body, "title").a
        /\ resumes'[id].meta_code # resumes[id].meta_code =>
             Truthy(Get(body, "meta_code")) /\ resumes'[id].meta_code = Get(body, "meta_code").a

DifferingSections(old, new) ==
    {k \in KeySet(old) \cup KeySet(new) : Get(old, k) # Get(new, k)}

\* C10: a full update with a changed payload appends exactly one version,
\* numbered one above the current_version it read, of type edit, holding the
\* payload and the sections that differ from the data it read (exactly the one
\* section when one differs); its save sets data to the payload and
\* current_version to that number.
ReplaceAppendsOneVersion ==
    [][\A c \in Callers :
        /\ (req[c].pc = "put_version" /\ req'[c].pc = "put_save") =>
             LET r == req[c]
                 data == Get(r.body, "data")
                 added == versions' \ versions
             IN /\ Cardinality(added) = 1
                /\ versions \subseteq versions'
                /\ resumes' = resumes
                /\ \A v \in added :
                     /\ v.resume_id = r.id
                     /\ v.version_number = r.doc.current_version + 1
                     /\ v.change_type = "edit"
                     /\ v.data = data
                     /\ v.changed_sections = diffSections(r.doc.data, data)
                     /\ Len(v.changed_sections) > 0
                     /\ Cardinality(DifferingSections(r.doc.data, data)) = 1 =>
                          /\ Len(v.changed_sections) = 1
                          /\ v.changed_sections[1] \in DifferingSections(r.doc.data, data)
        /\ (req[c].pc = "put_save" /\ req'[c].pc = "done" /\ req'[c].status = 200) =>
             LET r == req[c]
             IN /\ versions' = versions
                /\ resumes'[r.id].data = Get(r.body, "data")
                /\ resumes'[r.id].current_version = r.doc.current_version + 1
                /\ req'[c].new_version = r.doc.current_version + 1]_vars

\* C10 witness: a full update that changed the one section meta returned with
\* version 2, which is the resume's current version and holds its data
ReplacedOneSection ==
    \E c \in Callers, v \in versions :
        /\ Advanced(c, 2)
        /\ v.change_type = "edit"
        /\ v.version_number = 2
        /\ v.changed_sections = <<"meta">>
        /\ v.change_summary = "Updated meta"
        /\ v.resume_id \in DOMAIN resumes
        /\ resumes[v.resume_id].current_version = 2
        /\ resumes[v.resume_id].data = v.data

\* C11: a partial update appends no version, removes none, and leaves the
\* current_version of every resume as it is, in its load step and in its
\* save step, whatever other requests are in flight.
PatchKeepsVersions ==
    [][\A c \in Callers :
        ((req[c].pc = "patch_save" \/ req'[c].pc = "patch_save") /\ req'[c] # req[c]) =>
            /\ versions' = versions
            /\ DOMAIN resumes' = DOMAIN resumes
            /\ \A id \in DOMAIN resumes :
                 resumes'[id].current_version = resumes[id].current_version]_vars

\* C11 witness: after a full update made version 2 current, a partial update
\* set skills; the resume is still at version 2 with versions 1 and 2 only
PatchedAfterReplace ==
    \E id \in DOMAIN resumes :
        /\ Quiescent
        /\ Get(resumes[id].data, "skills") = JArr(<<JStr("y")>>)
        /\ resumes[id].current_version = 2
        /\ {v.version_number : v \in VersionsOf(id)} = {1, 2}
        /\ \A v \in VersionsOf(id) : Get(v.data, "skills") # JArr(<<JStr("y")>>)

\* the sections a partial update names
PatchNamed(body) ==
    IF PatchSingle(body) THEN {Get(body, "section").a}
    ELSE IF PatchMulti(body) THEN KeySet(Get(body, "sections"))
    ELSE {}

\* the value a partial update supplies for section k
PatchSupplied(body, k) ==
    IF PatchSingle(body) THEN Get(body, "value") ELSE Get(Get(body, "sections"), k)

\* C12: a successful partial update stores, for every section it names, the
\* supplied value as a whole, and for every other section the value of the
\* data it read (the stored data, when no other write came in between); the
\* sections of the result are those it read plus those it names.
PatchReplacesSections ==
    [][\A c \in Callers :
        (req[c].pc = "patch_save" /\ req'[c].pc = "done" /\ req'[c].status = 200) =>
            LET r == req[c]
                new == resumes'[r.id].data
                named == PatchNamed(r.body)
            IN /\ \A k \in named : Get(new, k) = PatchSupplied(r.body, k)
               /\ \A k \in (KeySet(r.doc.data) \cup KeySet(new)) \ named :
                    Get(new, k) = Get(r.doc.data, k)
               /\ KeySet(new) = KeySet(r.doc.data) \cup named
               /\ resumes[r.id].data = r.doc.data =>
                    \A k \in KeySet(resumes[r.id].data) \ named :
                        Get(new, k) = Get(resumes[r.id].data, k)]_vars

\* C12 witness: a partial update of basics and meta on the data of version 2
\* replaced basics by the supplied value (the old key name is gone) and kept
\* the section skills it did not name
PatchedWholeSection ==
    \E c \in Callers, id \in DOMAIN resumes :
        /\ req[c].pc = "done"
        /\ req[c].status = 200
        /\ Get(resumes[id].data, "basics") = JObj(<< <<"label", JStr("C")>> >>)
        /\ Get(resumes[id].data, "meta") = JObj(<< <<"code", JStr("PM")>> >>)
        /\ Get(resumes[id].data, "skills") = JArr(<<JStr("x")>>)
        /\ resumes[id].meta_code = "PM"

\* C13: an upload whose meta.code matches no resume creates one new resume
\* with current_version 1 and the payload as data, then appends its version 1
\* of type upload holding the payload, with all top-level keys of the payload
\* as changed sections, and answers 201 (created).
UploadCreates ==
    [][\A c \in Callers :
        /\ (req[c].pc = "upload_insert" /\ req'[c].pc = "upload_first") =>
             LET r == req[c]
                 created == DOMAIN resumes' \ DOMAIN resumes
             IN /\ Cardinality(created) = 1
                /\ versions' = versions
                /\ \A id \in DOMAIN resumes : resumes'[id] = resumes[id]
                /\ \A id \in created :
                     /\ req'[c].id = id
                     /\ resumes'[id].current_version = 1
                     /\ resumes'[id].data = UploadData(r.body)
                     /\ resumes'[id].meta_code = Get(Get(UploadData(r.body), "meta"), "code").a
                     /\ VersionsOf(id) = {}
        /\ (req[c].pc = "upload_first" /\ req'[c].pc = "done" /\ req'[c].error # "StoreUnavailable") =>
             LET r == req[c]
                 added == versions' \ versions
             IN /\ Cardinality(added) = 1
                /\ versions \subseteq versions'
                /\ resumes' = resumes
                /\ req'[c].status = 201
                /\ req'[c].new_version = 1
                /\ \A v \in added :
                     /\ v.resume_id = r.id
                     /\ v.version_number = 1
                     /\ v.change_type = "upload"
                     /\ v.data = UploadData(r.body)
                     /\ v.changed_sections = Keys(UploadData(r.body))
                     /\ Len(v.changed_sections) > 0]_vars

\* C13 witness: an upload into the empty store answered 201; resume 1 holds the
\* payload at version 1 and its only version is the upload of meta and basics
UploadedNew ==
    \E c \in Callers :
        /\ req[c].pc = "done"
        /\ req[c].status = 201
        /\ 1 \in DOMAIN resumes
        /\ resumes[1].data = DN
        /\ resumes[1].title = "T2"
        /\ resumes[1].current_version = 1
        /\ VersionsOf(1) = {Version(1, 1, DN, <<"meta", "basics">>, "Initial upload", "upload")}

\* C14: an upload whose meta.code matches a resume acts on it as a full
\* update with the same payload does, with change type upload: a payload that
\* differs from the data it read appends one version numbered one above the
\* current_version it read (or is rejected on a used number) and its save
\* advances the pointer to that number; a payload deeply equal to the data it
\* read appends no version and leaves current_version alone.
UploadLikeReplace ==
    [][\A c \in Callers :
        /\ (req[c].pc = "upload_version" /\ req'[c] # req[c] /\ req'[c].error # "StoreUnavailable") =>
             LET r == req[c]
                 data == UploadData(r.body)
                 added == versions' \ versions
             IN IF deepEqual(r.doc.data, data)
                THEN /\ versions' = versions
                     /\ req'[c].pc # "upload_save"
                ELSE /\ versions \subseteq versions'
                     /\ \/ Cardinality(added) = 0 /\ req'[c].status = 500
                        \/ /\ Cardinality(added) = 1
                           /\ \A v \in added :
                                /\ v.resume_id = r.id
                                /\ v.version_number = r.doc.current_version + 1
                                /\ v.change_type = "upload"
                                /\ v.data = data
                                /\ v.changed_sections = diffSections(r.doc.data, data)
        /\ (req[c].pc = "upload_save" /\ req'[c].pc = "done" /\ req'[c].status = 200) =>
             /\ ~deepEqual(req[c].doc.data, UploadData(req[c].body))
             /\ resumes'[req[c].id].data = UploadData(req[c].body)
             /\ resumes'[req[c].id].current_version = req[c].doc.current_version + 1]_vars

\* C15: a rollback to version t appends exactly one version: numbered one
\* above the current_version it read, holding the data of version t, of type
\* rollback, with the sections that differ between the resume's data before
\* the rollback and the data of version t, and the summary "Rolled back to
\* v{t}"; its save sets the resume's data to the data of version t and
\* current_version to the new number.
RollbackAppendsTarget ==
    [][\A c \in Callers :
        /\ (req[c].pc \in {"idle", "done"} /\ req'[c].pc = "rollback_find") =>
             \E w \in versions :
                 /\ w.resume_id = req'[c].id
                 /\ w.version_number = req'[c].version_number
                 /\ req'[c].target = w.data
        /\ (req[c].pc = "rollback_version" /\ req'[c].pc = "rollback_save") =>
             LET r == req[c]
                 added == versions' \ versions
             IN /\ Cardinality(added) = 1
                /\ versions \subseteq versions'
                /\ resumes' = resumes
                /\ \A v \in added :
                     /\ v.resume_id = r.id
                     /\ v.version_number = r.doc.current_version + 1
                     /\ v.change_type = "rollback"
                     /\ v.data = r.target
                     /\ v.changed_sections = diffSections(r.doc.data, v.data)
                     /\ SeqToSet(v.changed_sections) = DifferingSections(r.doc.data, v.data)
                     /\ v.change_summary = "Rolled back to v" \o ToString(r.version_number)
                     /\ r.version_number = 1 => v.change_summary = "Rolled back to v1"
                     /\ r.version_number = 2 => v.change_summary = "Rolled back to v2"
                     /\ (r.id \in DOMAIN resumes /\ resumes[r.id] = r.doc) =>
                          /\ v.version_number = resumes[r.id].current_version + 1
                          /\ SeqToSet(v.changed_sections) = DifferingSections(resumes[r.id].data, v.data)
        /\ (req[c].pc = "rollback_save" /\ req'[c].pc = "done" /\ req'[c].status = 200) =>
             LET r == req[c]
             IN /\ versions' = versions
                /\ resumes'[r.id].data = r.target
                /\ resumes'[r.id].current_version = r.doc.current_version + 1
                /\ req'[c].new_version = r.doc.current_version + 1]_vars

\* C15 witness: a rollback to version 1 of a resume whose skills had been
\* patched returned with version 2: a rollback version holding the data of
\* version 1, changed section skills, which is now the resume's data
RolledBackPatched ==
    \E c \in Callers, v \in versions :
        /\ Advanced(c, 2)
        /\ v = Version(v.resume_id, 2, DA, <<"skills">>, "Rolled back to v1", "rollback")
        /\ v.resume_id \in DOMAIN resumes
        /\ resumes[v.resume_id].current_version = 2
        /\ resumes[v.resume_id].data = DA
        /\ \E w \in VersionsOf(v.resume_id) : w.version_number = 1 /\ w.data = DA

\* C16: a rollback reads the data of the stored version N, and right after
\* its successful save the diff of the resume's data against that data is
\* empty.
RollbackThenDiffEmpty ==
    [][\A c \in Callers :
        /\ (req[c].pc \in {"idle", "done"} /\ req'[c].pc = "rollback_find") =>
             req'[c].target \in
                 {w.data : w \in {x \in VersionsOf(req'[c].id) : x.version_number = req'[c].version_number}}
        /\ (req[c].pc = "rollback_save" /\ req'[c].pc = "done" /\ req'[c].status = 200) =>
             /\ diffSections(resumes'[req[c].id].data, req[c].target) = <<>>
             /\ diffSections(req[c].target, resumes'[req[c].id].data) = <<>>]_vars

\* C16 witness: a rollback that changed at least one section has returned;
\* the version it names is stored and the diff of the resume's data against
\* it is empty
RolledBackEqualsTarget ==
    \E c \in Callers, v \in versions, w \in versions :
        /\ req[c].pc = "done"
        /\ req[c].status = 200
        /\ req[c].new_version = v.version_number
        /\ v.change_type = "rollback"
        /\ Len(v.changed_sections) > 0
        /\ w.resume_id = v.resume_id
        /\ v.change_summary = "Rolled back to v" \o ToString(w.version_number)
        /\ v.resume_id \in DOMAIN resumes
        /\ resumes[v.resume_id].current_version = v.version_number
        /\ diffSections(resumes[v.resume_id].data, w.data) = <<>>

\* C17: on a resume read with data {basics: {name: A}} at version 1, a full
\* update with {basics: {name: B}, skills: [x]} appends version 2 with changed
\* sections basics, skills and summary "Updated basics, skills"; on the resume
\* read with that data at version 2, a rollback to version 1 appends version 3
\* with data {basics: {name: A}}, changed sections basics, skills and summary
\* "Rolled back to v1", and its save makes that data and version 3 current.
ScenarioReplaceRollback ==
    [][\A c \in Callers :
        /\ (/\ req[c].pc = "put_version"
            /\ req'[c].pc = "put_save"
            /\ req[c].doc.data = DA
            /\ req[c].doc.current_version = 1
            /\ Get(req[c].body, "data") = DB) =>
             versions' \ versions =
                 {Version(req[c].id, 2, DB, <<"basics", "skills">>, "Updated basics, skills", "edit")}
        /\ (/\ req[c].pc = "rollback_version"
            /\ req'[c].pc = "rollback_save"
            /\ req[c].version_number = 1
            /\ req[c].target = DA
            /\ req[c].doc.data = DB
            /\ req[c].doc.current_version = 2) =>
             versions' \ versions =
                 {Version(req[c].id, 3, DA, <<"basics", "skills">>, "Rolled back to v1", "rollback")}
        /\ (/\ req[c].pc = "rollback_save"
            /\ req'[c].pc = "done"
            /\ req'[c].status = 200
            /\ req[c].version_number = 1
            /\ req[c].target = DA
            /\ req[c].doc.data = DB
            /\ req[c].doc.current_version = 2) =>
             /\ resumes'[req[c].id].data = DA
             /\ resumes'[req[c].id].current_version = 3
             /\ req'[c].new_version = 3]_vars

\* C17 witness: the scenario has run on resume 1: its versions are the first
\* snapshot, the full update and the rollback, and version 3 is current
ScenarioDone ==
    /\ 1 \in DOMAIN resumes
    /\ resumes[1].data = DA
    /\ resumes[1].current_version = 3
    /\ VersionsOf(1) =
         { SeedVersion,
           Version(1, 2, DB, <<"basics", "skills">>, "Updated basics, skills", "edit"),
           Version(1, 3, DA, <<"basics", "skills">>, "Rolled back to v1", "rollback") }

\* C18: the changed sections of every stored version numbered above 1 are
\* exactly the sections whose values differ between the data of the version
\* numbered one below and its own data.
ChangedSectionsMatchPrior ==
    \A v \in versions, w \in versions :
        (v.resume_id = w.resume_id /\ v.version_number = w.version_number + 1) =>
            SeqToSet(v.changed_sections) = SeqToSet(diffSections(w.data, v.data))

\* C19: no step stores a version with an empty list of changed sections:
\* every append records at least one changed section.
NoEmptyChangedSections ==
    [][\A v \in versions' \ versions : Len(v.changed_sections) > 0]_vars

\* C20: a resume is created with current_version 1, and every step that
\* changes the current_version of a resume raises it by exactly 1.
CurrentVersionStepsByOne ==
    [][\A id \in DOMAIN resumes' :
        IF id \in DOMAIN resumes
        THEN \/ resumes'[id].current_version = resumes[id].current_version
             \/ resumes'[id].current_version = resumes[id].current_version + 1
        ELSE resumes'[id].current_version = 1]_vars

\* the state of StaleInit as the requests of Spec leave it
StaleReached ==
    \E body \in PutBodies :
        /\ PutLoaded(Request("PUT", 1, body), SeedResume).pc = "put_version"
        /\ resumes = (1 :> SeedResume)
        /\ versions = {}
        /\ req[1] = [PutLoaded(Request("PUT", 1, body), SeedResume) EXCEPT !.pc = "put_save"]
        /\ req[2] = Respond(NoReq, 500, "StoreUnavailable")

\* the step of caller c answers with the given error and writes nothing
Rejected(c, status, error) ==
    /\ req'[c].pc = "done"
    /\ req'[c].status = status
    /\ req'[c].error = error
    /\ resumes' = resumes
    /\ versions' = versions
    /\ generations' = generations

\* C21: a full update with a data body, a partial update and a rollback on a
\* resume that is not stored, and a rollback to a version number that is not
\* stored for the resume, answer NotFound in the step that looks the resume or
\* the version up, and that step changes no resume, no version and no job.
NotFoundChangesNothing ==
    [][\A c \in Callers :
        /\ (req[c].pc \in {"idle", "done"} /\ req'[c] # req[c]) =>
             /\ \A id \in Ids \ DOMAIN resumes :
                  /\ \A body \in PutBodies :
                       (Truthy(Get(body, "data")) /\ PutOn(c, id, body)) => Rejected(c, 404, "NotFound")
                  /\ \A body \in PatchBodies :
                       PatchOn(c, id, body) => Rejected(c, 404, "NotFound")
                  /\ \A n \in RollbackTargets \ {0} :
                       (VersionsOf(id) = {} /\ RollbackOn(c, id, n)) => Rejected(c, 404, "NotFound")
             /\ \A id \in Ids, n \in RollbackTargets \ {0} :
                  ({v \in VersionsOf(id) : v.version_number = n} = {} /\ RollbackOn(c, id, n)) =>
                      Rejected(c, 404, "NotFound")
        /\ (/\ req[c].pc = "rollback_find"
            /\ req[c].id \notin DOMAIN resumes
            /\ req'[c] # req[c]
            /\ req'[c].error # "StoreUnavailable") => Rejected(c, 404, "NotFound")
        /\ (req'[c] # req[c] /\ req'[c].status = 404) => Rejected(c, 404, "NotFound")]_vars

\* C21 witness: a call was answered NotFound while resume 1 and its first
\* version are stored as they were, and no resume 2 exists
NotFoundAnswered ==
    \E c \in Callers :
        /\ req[c].pc = "done"
        /\ req[c].status = 404
        /\ req[c].error = "NotFound"
        /\ resumes = (1 :> SeedResume)
        /\ versions = {SeedVersion}
        /\ ops = 1

\* C22: a full update without a data body, a partial update of a stored
\* resume that names a section outside the valid ones (alone or among the
\* sections of a multi-section body), and an upload without meta.code are
\* answered ValidationError in their first step, which changes no resume, no
\* version and no job; none of the patches of such a partial update is applied.
ValidationChangesNothing ==
    [][\A c \in Callers :
        /\ (req[c].pc \in {"idle", "done"} /\ req'[c] # req[c]) =>
             /\ \A id \in Ids, body \in PutBodies :
                  (~Truthy(Get(body, "data")) /\ PutOn(c, id, body)) =>
                      Rejected(c, 400, "ValidationError")
             /\ \A id \in DOMAIN resumes, body \in PatchBodies :
                  (~(PatchNamed(body) \subseteq validSections) /\ PatchOn(c, id, body)) =>
                      Rejected(c, 400, "ValidationError")
             /\ \A body \in UploadBodies :
                  (~Truthy(Get(Get(UploadData(body), "meta"), "code")) /\ UploadOn(c, body)) =>
                      Rejected(c, 400, "ValidationError")
        /\ (req'[c] # req[c] /\ req'[c].status = 400) => Rejected(c, 400, "ValidationError")]_vars

\* C22 witness: one call was answered ValidationError, resume 1 and its
\* version are stored as they were, and a valid partial update of skills has
\* passed the validation and is about to save
ValidationAnswered ==
    \E c \in Callers, d \in Callers :
        /\ req[c].pc = "done"
        /\ req[c].status = 400
        /\ req[c].error = "ValidationError"
        /\ req[d].pc = "patch_save"
        /\ Get(req[d].body, "section") = JStr("skills")
        /\ resumes = (1 :> SeedResume)
        /\ versions = {SeedVersion}

\* structural equality of JSON values: the same kind; objects with the same
\* key set and equal values; arrays of the same length with equal elements in
\* order; primitives and null the same; an absent value equal to nothing else
RECURSIVE StructEq(_, _)
StructEq(a, b) ==
    IF a.t # b.t THEN FALSE
    ELSE IF a.t = "obj"
         THEN KeySet(a) = KeySet(b) /\ \A k \in KeySet(a) : StructEq(Get(a, k), Get(b, k))
    ELSE IF a.t = "arr"
         THEN Len(a.kv) = Len(b.kv) /\ \A i \in 1..Len(a.kv) : StructEq(a.kv[i][2], b.kv[i][2])
    ELSE a = b

\* a call of diffSections by caller c has returned
Diffed(c) == req[c].op = "diffSections" /\ req[c].pc = "done"

\* C23: for a previous map that is present, diffSections returns a section
\* name exactly when it is a key of either map and the two values are not
\* structurally equal (a null value differs from an absent key).
DiffReportsUnequalSections ==
    \A c \in Callers :
        (Diffed(c) /\ Truthy(req[c].doc.data)) =>
            LET previous == req[c].doc.data
                next == req[c].body
            IN SeqToSet(req[c].changedSections) =
                   {k \in KeySet(previous) \cup KeySet(next) : ~StructEq(Get(previous, k), Get(next, k))}

\* C24: diffSections of a section map against itself is empty.
DiffOfSameMapEmpty ==
    \A c \in Callers :
        (Diffed(c) /\ Truthy(req[c].doc.data) /\ req[c].doc.data = req[c].body) =>
            req[c].changedSections = <<>>

\* C24 witness: a map with an object under skills and an array under work was
\* diffed against itself and the call returned the empty list
DiffedSameMap ==
    \E c \in Callers :
        /\ Diffed(c)
        /\ req[c].doc.data = DiffMap(JObj(<< <<"a", JNum("1")>>, <<"b", JNum("2")>> >>), JArr(<<JStr("x")>>))
        /\ req[c].body = req[c].doc.data
        /\ req[c].changedSections = <<>>

\* C25: with no previous map (undefined or null) diffSections returns the
\* keys of the next map, in their order; for the empty map, the empty list.
DiffOfAbsentIsKeys ==
    \A c \in Callers :
        (Diffed(c) /\ req[c].doc.data \in {Undef, JNull}) =>
            /\ req[c].changedSections = Keys(req[c].body)
            /\ req[c].body = JObj(<<>>) => req[c].changedSections = <<>>

\* C25 witness: a call without a previous map returned both keys of a map
\* whose skills value is null
DiffedAbsent ==
    \E c \in Callers :
        /\ Diffed(c)
        /\ req[c].doc.data = Undef
        /\ req[c].body = DiffMap(JNull, JStr("x"))
        /\ req[c].changedSections = <<"skills", "work">>

\* C26: generateChangeSummary returns "No changes detected" for the empty
\* list, "Updated s" for one section, "Updated " and the names joined by ", "
\* in their order for two or three sections, and "Updated N sections" for
\* N > 3 sections.
SummaryByLength ==
    \A c \in Callers :
        (req[c].op = "generateChangeSummary" /\ req[c].pc = "done") =>
            LET l == req[c].changedSections
                n == Len(l)
                out == req[c].changeSummary
            IN /\ n = 0 => out = "No changes detected"
               /\ n = 1 => out = "Updated " \o l[1]
               /\ n = 2 => out = "Updated " \o l[1] \o ", " \o l[2]
               /\ n = 3 => out = "Updated " \o l[1] \o ", " \o l[2] \o ", " \o l[3]
               /\ n > 3 => out = "Updated " \o ToString(n) \o " sections"
               /\ l = <<"work">> => out = "Updated work"
               /\ l = <<"skills", "basics">> => out = "Updated skills, basics"
               /\ l = <<"work", "skills", "education", "projects">> => out = "Updated 4 sections"

\* C26 witness: the call with the four sections work, skills, education and
\* projects returned "Updated 4 sections"
SummarisedFour ==
    \E c \in Callers :
        /\ req[c].pc = "done"
        /\ req[c].changedSections = <<"work", "skills", "education", "projects">>
        /\ req[c].changeSummary = "Updated 4 sections"

\* the entries of a listing are in strictly descending order of version_number
NewestFirst(l) == \A i \in 1..Len(l) : \A j \in 1..Len(l) : i < j => l[i].version_number > l[j].version_number

\* a listing has one entry for every stored version of the resume, and no other
ListsExactly(l, id) ==
    /\ Len(l) = Cardinality(VersionsOf(id))
    /\ {l[i].version_number : i \in 1..Len(l)} = {v.version_number : v \in VersionsOf(id)}

\* C27: a listing of the versions of a resume has an entry for every stored
\* version of that resume and for no other, ordered from the highest
\* version_number to the lowest, and no entry carries the data of its version.
\* This holds for GET /api/resumes/[id]/versions, whose entries are the stored
\* versions without their data, and for GET /api/resumes/[id]?versions=true.
ListIsHistoryNewestFirst ==
    [][\A c \in Callers :
        /\ \A id \in Ids :
             ListVersionsOn(c, id) =>
               /\ ListsExactly(req'[c].listed, id)
               /\ NewestFirst(req'[c].listed)
               /\ \A i \in 1..Len(req'[c].listed) :
                    /\ "data" \notin DOMAIN req'[c].listed[i]
                    /\ \E v \in VersionsOf(id) : req'[c].listed[i] = SelectSummary(v)
        /\ (req[c].pc = "get_versions" /\ req'[c].status = 200) =>
               /\ ListsExactly(req'[c].listed, req[c].id)
               /\ NewestFirst(req'[c].listed)
               /\ \A i \in 1..Len(req'[c].listed) : "data" \notin DOMAIN req'[c].listed[i]]_vars

\* a listing of two versions has been returned
ListedTwo ==
    \E c \in Callers :
        /\ req[c].pc = "done" /\ req[c].status = 200
        /\ Len(req[c].listed) = 2
        /\ req[c].listed[1].version_number = 2 /\ req[c].listed[2].version_number = 1
        /\ "change_type" \in DOMAIN req[c].listed[1]
        /\ \E id \in Ids : Cardinality(VersionsOf(id)) = 2

\* the stored versions of resume id with the given number
Rows(id, version_number) == {v \in versions : v.resume_id = id /\ v.version_number = version_number}

\* C28: the job a generate request creates records as version_number the
\* current_version the request read from the resume, and as resume_data the
\* data of the stored version of that resume with that number, whatever the
\* resume's own data is and whatever is written to the resume during the
\* request; the data the request read from the resume is the snapshot only
\* when no version with that number is stored.
JobSnapshotsItsVersion ==
    [][\A c \in Callers :
        /\ \A id \in Ids :
             (GenerateOn(c, id) /\ id \in DOMAIN resumes) =>
               /\ req'[c].pc = "generate_version"
               /\ req'[c].doc = resumes[id]
        /\ (req[c].pc = "generate_version" /\ req'[c].pc = "generate_create") =>
               /\ req'[c].doc = req[c].doc
               /\ IF Rows(req[c].id, req[c].doc.current_version) = {}
                  THEN req'[c].target = Undef
                  ELSE \E v \in Rows(req[c].id, req[c].doc.current_version) : req'[c].target = v.data
        /\ (req[c].pc = "generate_create" /\ req'[c].status = 201) =>
             \E job \in generations' \ generations :
               /\ generations' = generations \cup {job}
               /\ job.resume_id = req[c].id
               /\ job.status = "PENDING"
               /\ job.version_number = req[c].doc.current_version
               /\ job.resume_data = IF req[c].target # Undef THEN req[c].target ELSE req[c].doc.data]_vars

\* a job holds the data of the current version of a resume whose own data has
\* been patched since
JobOfPatchedResume ==
    \E job \in generations :
        /\ job.resume_id \in DOMAIN resumes
        /\ job.version_number = resumes[job.resume_id].current_version
        /\ job.resume_data # resumes[job.resume_id].data
        /\ \E v \in Rows(job.resume_id, job.version_number) : v.data = job.resume_data

\* the requests that write a resume's content
Writers == {"PUT", "PATCH", "UPLOAD", "ROLLBACK"}

\* C29: a job, once created, keeps its resume_data and version_number under
\* every step of a full update, section update, upload or rollback, and under
\* every other step except the deleteMany of a DELETE of its resume, which
\* removes it; and no step of a generate request changes a resume or a
\* stored version.
JobsAreFrozen ==
    [][/\ \A g \in generations :
            \/ \E h \in generations' :
                 /\ h.job_id = g.job_id /\ h.resume_id = g.resume_id
                 /\ h.resume_data = g.resume_data /\ h.version_number = g.version_number
            \/ \E c \in Callers : req[c].pc = "delete_generations" /\ req[c].id = g.resume_id
       /\ \A c \in Callers :
            (req'[c] # req[c] /\ (req[c].op \in Writers \/ req'[c].op \in Writers)) =>
               generations' = generations
       /\ \A c \in Callers :
            (req'[c] # req[c] /\ (req[c].op = "GENERATE" \/ req'[c].op = "GENERATE")) =>
               (resumes' = resumes /\ versions' = versions)]_vars

\* a job of version 1 is stored with the data of version 1 after a full update
\* has taken its resume to version 2 with other data
JobOutlivesReplace ==
    \E job \in generations :
        /\ job.resume_id \in DOMAIN resumes
        /\ job.version_number = 1
        /\ resumes[job.resume_id].current_version = 2
        /\ resumes[job.resume_id].data # job.resume_data
        /\ \E v \in Rows(job.resume_id, 1) : v.data = job.resume_data
        /\ \E v \in Rows(job.resume_id, 2) : v.data = resumes[job.resume_id].data

\* C30: every step of a full update, section update or rollback of one resume
\* leaves every other resume as it is, data and current_version included,
\* and leaves the stored versions of every other resume as they are, whatever
\* requests run at the same time.
OtherResumesUntouched ==
    [][\A c \in Callers :
        (req'[c] # req[c] /\ req[c].op \in {"PUT", "PATCH", "ROLLBACK"}) =>
          \A id \in (DOMAIN resumes \cup {v.resume_id : v \in versions}) \ {req[c].id} :
            /\ id \in DOMAIN resumes =>
                 /\ id \in DOMAIN resumes'
                 /\ resumes'[id].data = resumes[id].data
                 /\ resumes'[id].current_version = resumes[id].current_version
                 /\ resumes'[id] = resumes[id]
            /\ id \notin DOMAIN resumes => id \notin DOMAIN resumes'
            /\ {v \in versions' : v.resume_id = id} = VersionsOf(id)]_vars

\* one resume has been taken to version 2 with new data while the other is
\* as it was stored, and a request on that other resume is under way
UpdatedBesideUntouched ==
    /\ DOMAIN resumes = {1, 2}
    /\ \E id \in {1, 2} :
        /\ resumes[id].current_version = 2
        /\ Cardinality(VersionsOf(id)) = 2
        /\ resumes[3 - id].current_version = 1
        /\ Cardinality(VersionsOf(3 - id)) = 1
        /\ \E c \in Callers : req[c].id = 3 - id /\ req[c].op \in {"PUT", "PATCH", "ROLLBACK"}
                              /\ req[c].pc \notin {"idle", "done"}

\* the resumes that were stored once and are deleted
Deleted == (1..(nextId - 1)) \ DOMAIN resumes

\* C31: once a resume has been deleted, no stored version and no generation
\* job refers to it, also when the DELETE ran at the same time as a full
\* update, upload, rollback or generate request on that resume.
NothingOutlivesItsResume ==
    \A id \in Deleted :
        /\ VersionsOf(id) = {}
        /\ \A g \in generations : g.resume_id # id

\* a request of caller c is under way
Busy(c) == req[c].pc \notin {"idle", "done"}

\* the awaited operations a writing handler at pc has ahead of it at most
StepsLeft(pc) ==
    CASE pc = "put_version" -> 2
      [] pc = "put_cosmetic" -> 1
      [] pc = "put_save" -> 1
      [] pc = "patch_save" -> 1
      [] pc = "upload_version" -> 2
      [] pc = "upload_save" -> 1
      [] pc = "upload_insert" -> 2
      [] pc = "upload_first" -> 1
      [] pc = "rollback_find" -> 3
      [] pc = "rollback_version" -> 2
      [] pc = "rollback_save" -> 1
      [] OTHER -> 0

\* C32: every full update, section update, upload and rollback ends, whatever
\* the other callers do: the request comes to an answer (a success or an
\* error), each of its steps leaves it fewer awaited operations to go, so
\* that it makes at most one attempt at each, and at every moment its next
\* step can be taken without any other request moving.
WritersTerminate ==
    /\ \A c \in Callers : (Busy(c) /\ req[c].op \in Writers) ~> (req[c].pc = "done")
    /\ [][\A c \in Callers :
            (req[c].op \in Writers /\ Busy(c) /\ req'[c] # req[c]) =>
               /\ StepsLeft(req'[c].pc) < StepsLeft(req[c].pc)
               /\ req'[c].pc = "done" => req'[c].status \in {200, 201, 400, 404, 409, 500}]_vars
    /\ [](\A c \in Callers : (Busy(c) /\ req[c].op \in Writers) => ENABLED <<Continue(c)>>_vars)

\* two writers are under way on the same resume, one of them about to be
\* rejected by the unique index
WriterBesideWriter ==
    /\ req[1].op \in Writers /\ req[2].op \in Writers
    /\ req[1].id = req[2].id
    /\ req[1].pc = "put_version" /\ req[2].pc = "put_save"
    /\ \E v \in versions : v.resume_id = req[1].id /\ v.version_number = req[1].doc.current_version + 1

\* the steps of a job's status that the workflow draws
StatusSteps ==
    { <<"PENDING", "PROCESSING">>, <<"PROCESSING", "COMPLETED">>, <<"PROCESSING", "FAILED">> }

\* C33: a job is created with status PENDING, and afterwards its status only
\* moves from PENDING to PROCESSING and from PROCESSING to COMPLETED or to
\* FAILED, whatever the number of workers that follow the workflow.
StatusOnlyForward ==
    [][/\ \A g \in generations' :
            (\A h \in generations : h.job_id # g.job_id) => g.status = "PENDING"
       /\ \A h \in generations : \A g \in generations' :
            (g.job_id = h.job_id /\ g.status # h.status) => <<h.status, g.status>> \in StatusSteps]_vars

\* every worker takes its jobs with find_one_and_update
AllPoll == \A w \in Workers : req[w].op = "POLL"

\* C34: when every worker picks its jobs up with the find_one_and_update
\* that turns one PENDING job into PROCESSING, no job is taken by two
\* workers, and the workers that hold a job hold different jobs.
PickedUpOnce ==
    AllPoll =>
        \A w1 \in Workers : \A w2 \in Workers :
            w1 # w2 =>
               /\ req[w1].seen \cap req[w2].seen = {}
               /\ (req[w1].pc # "wait" /\ req[w2].pc # "wait") => req[w1].id # req[w2].id

\* two polling workers have each taken and finished a job of their own
TwoPickups ==
    /\ AllPoll
    /\ \E w1 \in Workers : \E w2 \in Workers :
         /\ w1 # w2
         /\ req[w1].seen # {} /\ req[w2].seen # {}
         /\ \A g \in generations : g.status \in {"COMPLETED", "FAILED"}
    /\ Cardinality(generations) = 2

\* C35: the list diffSections returns has the changed keys of the previous
\* map first, in the key order of the previous map, and after them the
\* changed keys that only the next map has, in the key order of the next
\* map; and two calls with the same maps return the same list.
DiffOrderIsCanonical ==
    /\ \A c \in Callers :
         Diffed(c) =>
            LET previous == req[c].doc.data
                next == req[c].body
                changed == SeqToSet(req[c].changedSections)
            IN req[c].changedSections =
                   SelectSeq(Keys(previous), LAMBDA k : k \in changed)
                   \o SelectSeq(Keys(next), LAMBDA k : k \in changed /\ k \notin KeySet(previous))
    /\ \A c \in Callers : \A d \in Callers :
         (Diffed(c) /\ Diffed(d) /\ req[c].doc.data = req[d].doc.data /\ req[c].body = req[d].body) =>
            req[c].changedSections = req[d].changedSections

\* a previous map with work before skills was diffed with a next map that has
\* skills before work and a new section: the list follows the previous map
DiffedReordered ==
    \E c \in Callers :
        /\ Diffed(c)
        /\ Keys(req[c].doc.data) = <<"work", "skills">>
        /\ Keys(req[c].body) = <<"basics", "skills", "work">>
        /\ req[c].changedSections = <<"work", "skills", "basics">>

\* the places at which a request is about to append a version to a stored resume
Appending == {"put_version", "upload_version", "rollback_version"}

\* C36: a full update, upload or rollback whose ResumeVersion.create is
\* rejected because the version number is taken ends with an error in that
\* step, which changes no resume (data, current_version, title and meta_code
\* included) and no stored version; and the request has written nothing
\* before it, every step that leads it to the append being a read.
RejectedAppendChangesNothing ==
    [][\A c \in Callers :
        /\ (/\ req[c].pc \in Appending
            /\ req'[c] # req[c]
            /\ \E v \in versions : /\ v.resume_id = req[c].id
                                   /\ v.version_number = req[c].doc.current_version + 1) =>
               \/ Rejected(c, 500, "E11000")
               \/ Rejected(c, 500, "StoreUnavailable")
        /\ (req[c].pc \in Appending /\ req'[c] # req[c] /\ req'[c].error = "E11000") =>
               Rejected(c, 500, "E11000")
        /\ (req'[c] # req[c] /\ req'[c].pc \in Appending \cup {"rollback_find"}) =>
               (resumes' = resumes /\ versions' = versions)]_vars

\* a request was rejected on the duplicate key while the resume is at the
\* version the other writer appended and saved
AppendWasRejected ==
    \E c \in Callers :
        /\ req[c].pc = "done" /\ req[c].error = "E11000" /\ req[c].status = 500
        /\ 1 \in DOMAIN resumes
        /\ resumes[1].current_version = 2
        /\ {v.version_number : v \in VersionsOf(1)} = {1, 2}

\* C37: for all section maps A and B, diffSections(A, B) and
\* diffSections(B, A) hold the same set of section names.
DiffIsSymmetric ==
    (/\ Diffed(1) /\ Diffed(2)
     /\ req[1].doc.data = req[2].body
     /\ req[1].body = req[2].doc.data) =>
        SeqToSet(req[1].changedSections) = SeqToSet(req[2].changedSections)

\* C38: uploads never leave two resumes with the same meta_code: of two
\* concurrent uploads with a meta_code that no resume has, one creates the
\* resume and the other updates it or fails.
OneResumePerClassifier ==
    \A id1 \in DOMAIN resumes : \A id2 \in DOMAIN resumes :
        resumes[id1].meta_code = resumes[id2].meta_code => id1 = id2

(***************************************************************************)
(* Two concurrent partial updates of one resume: both have loaded the      *)
(* resume and neither has saved.                                           *)
(***************************************************************************)
PatchDocs ==
    RaceDocs \cup { [doc |-> [SeedResume EXCEPT !.data = DB], first |-> [SeedVersion EXCEPT !.data = DB]] }

PatchPairInit ==
    \E d \in PatchDocs, b1 \in PatchBodies, b2 \in PatchBodies :
        /\ ~PatchInvalid(b1)
        /\ ~PatchInvalid(b2)
        /\ resumes = (1 :> d.doc)
        /\ versions = {d.first}
        /\ generations = {}
        /\ nextId = 2
        /\ req = (1 :> [Request("PATCH", 1, b1) EXCEPT !.pc = "patch_save", !.doc = d.doc])
                 @@ (2 :> [Request("PATCH", 1, b2) EXCEPT !.pc = "patch_save", !.doc = d.doc])
        /\ ops = 2

PatchPairNext == \E c \in Callers : PatchSave(c) \/ StoreFailure(c)

SpecPatchPair == PatchPairInit /\ [][PatchPairNext]_vars

\* C39: two concurrent partial updates of one resume that patch different
\* sections both take effect: when the second of them succeeds, the stored
\* data keeps, for every section the second does not name, the value stored
\* before its save, the section the first has patched included.
BothPatchesTakeEffect ==
    [][\A c \in Callers : \A d \in Callers :
        (/\ c # d
         /\ req[d].pc = "done" /\ req[d].status = 200
         /\ req[c].pc = "patch_save"
         /\ PatchNamed(req[c].body) # {}
         /\ req'[c].status = 200) =>
            \A k \in KeySet(resumes[req[c].id].data) \ PatchNamed(req[c].body) :
                Get(resumes'[req[c].id].data, k) = Get(resumes[req[c].id].data, k)]_vars

\* caller c is the only one with a request under way
Alone(c) == \A d \in Callers : d # c => ~Busy(d)

\* C40: a store failure between the append of a version and the save of the
\* resume does not leave the resume unwritable: a later full update with
\* changed data that runs with no other request under way, on the resume as
\* it is stored, appends the version after the one it read and then sets
\* current_version to it, unless the store fails under it.
LoneReplaceAppends ==
    [][\A c \in Callers :
        /\ (/\ req[c].pc = "put_version"
            /\ Alone(c)
            /\ req[c].id \in DOMAIN resumes
            /\ req[c].doc = resumes[req[c].id]
            /\ req'[c] # req[c]
            /\ req'[c].error # "StoreUnavailable") =>
               /\ req'[c].pc = "put_save"
               /\ \E v \in versions' \ versions :
                    /\ v.resume_id = req[c].id
                    /\ v.version_number = req[c].doc.current_version + 1
        /\ (/\ req[c].pc = "put_save"
            /\ Alone(c)
            /\ req[c].id \in DOMAIN resumes
            /\ req'[c] # req[c]
            /\ req'[c].error # "StoreUnavailable") =>
               resumes'[req[c].id].current_version = req[c].doc.current_version + 1]_vars

====
